---------------------------- MODULE Spec2Model ----------------------------
(***************************************************************************)
(* Verification model of the molecular-plus simulation core:               *)
(*   simulate.pyx  (src/unnamed/part_001)  the per-step orchestrator, the  *)
(*                 Barnes-Hut octree, the rotation seeder, the checkerboard *)
(*                 partitioner and the parallel resolver loop               *)
(*   relax.pyx     (src/unnamed/part_002)  the overlap relaxer              *)
(*   structures.pyx                        the record layouts              *)
(*                                                                         *)
(* Numbers.  The code computes in 32-bit floats.  The model computes the   *)
(* same expressions exactly, on integer inputs, and keeps every quantity   *)
(* that the code derives by division or square root either as an exact    *)
(* fraction (numerator and denominator kept apart) or as a symbolic term.  *)
(* Float rounding is therefore outside the model.                          *)
(*                                                                         *)
(* The module holds four state machines over one set of variables; each    *)
(* specification leaves the variables of the other three idle:             *)
(*   SpecStep       simulate(): the phases of one step, over several steps  *)
(*   SpecPartition  simulate(): bounds, axis, binning, the parity passes    *)
(*   SpecGravity    apply_barnes_hut_gravity(): build and parallel walk     *)
(*   SpecRelax      relax_overlaps()                                        *)
(***************************************************************************)
EXTENDS Integers, Sequences, FiniteSets, Bags, TLC

VARIABLES
  \* ---- SpecStep: simulate() as a sequence of phases ----
  pc,                         \* the phase simulate() is about to run
  stepno,                     \* number of the simulate() call in progress (1-based)
  gravity_enabled,            \* global, part_001:60
  initial_rotation_strength,  \* global, part_001:67
  initial_rotation_applied,   \* global, part_001:66
  parlist,                    \* global Particle array, part_001:54
  newlinks,                   \* global, part_001:50
  totallinks,                 \* global, part_001:51
  totaldeadlinks,             \* global, part_001:52
  deadlinks,                  \* global per-worker array, part_001:53
  cpunum,                     \* global worker count, part_001:49
  exported,                   \* the exportdata list the last finished step returned
  reported,                   \* history: the per-step counts of every finished step
  rot_runs,                   \* history: executions of apply_initial_rotation_once
  trace,                      \* history: phases run in the current step, in order
  \* ---- SpecPartition: bounds, axis, binning and the parity passes ----
  ppc,                        \* position in the partition / resolver code
  ext,                        \* minX .. maxZ and maxSize of part_001:415-421
  parPool,                    \* the Pool record of part_001:422-426
  bini,                       \* loop index of the binning loop, part_001:510
  pair,                       \* the parity pass in progress, part_001:597
  next_chunk,                 \* next chunk the dynamic schedule hands out
  todo,                       \* per worker: the (heap, particle) pairs left
  writers,                    \* history: per particle, who wrote it in this pass
  visits,                     \* history: per particle, its collide/solve_link calls
  neighboursnum,              \* per particle: Particle.neighboursnum
  \* ---- SpecGravity: one call of apply_barnes_hut_gravity ----
  gpc,                        \* position in apply_barnes_hut_gravity
  gravity_theta,              \* opening angle, a fraction [n, d]
  gravity_softening,          \* softening length
  bbox,                       \* minX .. maxZ of part_001:236-250
  octree,                     \* the Octree of part_001:264, or NULL
  gi,                         \* loop index of the insertion loop, part_001:277
  ins,                        \* the call of Octree_insert in progress, if any
  gchunk,                     \* next chunk the force loop hands out
  gwork,                      \* per worker: particle, chunk end, terms to add
  force,                      \* the array force[3] of part_001:240
  offered,                    \* history: particles passed to Octree_insert
  refusals,                   \* history: particles whose insertion met a full arena
  walks,                      \* history: per particle, the terms its own walk added
  \* ---- SpecRelax: one call of relax_overlaps ----
  rpc,                        \* position in relax_overlaps
  par_loc,                    \* the position buffer (modified in place)
  par_size,                   \* the radii
  max_iterations,
  min_separation,             \* a fraction [n, d]
  strength,                   \* a fraction [n, d]
  alloc_ok,                   \* whether malloc gives all four buffers
  failing,                    \* the buffers malloc denies
  held,                       \* the buffers allocated and not yet freed
  input_loc,                  \* history: the positions as the caller passed them
  grid,                       \* cell_size, padded bounds and grid dimensions
  sorted,                     \* particle_cells and sorted_indices of the pass
  iteration,
  initial_overlaps,
  overlaps_this_pass,
  final_overlaps,
  ri,                         \* loop index i of part_002:140
  cand,                       \* the neighbours particle i has still to visit
  result,                     \* the tuple returned, once returned
  hist                        \* history: overlaps found in each finished pass

StepVars == <<pc, stepno, gravity_enabled, initial_rotation_strength,
              initial_rotation_applied, parlist, newlinks, totallinks,
              totaldeadlinks, deadlinks, cpunum, exported, reported, rot_runs, trace>>

PartVars == <<ppc, ext, parPool, bini, pair, next_chunk, todo, writers, visits,
              neighboursnum>>

GravVars == <<gpc, gravity_theta, gravity_softening, bbox, octree, gi, ins, gchunk,
              gwork, force, offered, refusals, walks>>

RelaxVars == <<rpc, par_loc, par_size, max_iterations, min_separation, strength,
               alloc_ok, failing, held, input_loc, grid, sorted, iteration, initial_overlaps,
               overlaps_this_pass, final_overlaps, ri, cand, result, hist>>

vars == <<StepVars, PartVars, GravVars, RelaxVars>>

-----------------------------------------------------------------------------
(* Small helpers                                                           *)

Max2(a, b) == IF a >= b THEN a ELSE b
Min2(a, b) == IF a <= b THEN a ELSE b
Abs(a) == IF a >= 0 THEN a ELSE -a
SetMax(S) == CHOOSE m \in S : \A x \in S : x <= m
SetMin(S) == CHOOSE m \in S : \A x \in S : m <= x

RECURSIVE SumOver(_, _)
\* Sum of f[x] over the finite set S.
SumOver(f, S) ==
  IF S = {} THEN 0
  ELSE LET x == CHOOSE y \in S : TRUE IN f[x] + SumOver(f, S \ {x})

-----------------------------------------------------------------------------
(***************************************************************************)
(* SpecStep: simulate() (part_001:395-689) as the sequence of its phases.  *)
(*                                                                         *)
(* A velocity is kept as the sequence of the impulses added to the value   *)
(* the host supplied; an impulse names the phase that added it, the        *)
(* components it touched and the step.  A position is the host's integer    *)
(* position plus one displacement per integration, each recorded as the    *)
(* number of impulses the velocity held when it was integrated.            *)
(***************************************************************************)

\* The other state machines idle.
PartIdle ==
  /\ ppc = "off" /\ ext = <<>> /\ parPool = <<>> /\ bini = 0
  /\ pair = 0 /\ next_chunk = 0 /\ todo = <<>> /\ writers = <<>>
  /\ visits = <<>> /\ neighboursnum = <<>>

GravIdle ==
  /\ gpc = "off" /\ gravity_theta = <<>> /\ gravity_softening = 0
  /\ bbox = <<>> /\ octree = <<>> /\ gi = 0 /\ ins = <<>> /\ gchunk = 0
  /\ gwork = <<>>
  /\ force = <<>> /\ offered = {} /\ refusals = <<>> /\ walks = <<>>

RelaxIdle ==
  /\ rpc = "off" /\ par_loc = <<>> /\ par_size = <<>> /\ max_iterations = 0
  /\ min_separation = <<>> /\ strength = <<>> /\ alloc_ok = TRUE
  /\ failing = {} /\ held = {} /\ input_loc = <<>>
  /\ grid = <<>> /\ sorted = <<>> /\ iteration = 0 /\ initial_overlaps = 0
  /\ overlaps_this_pass = 0 /\ final_overlaps = 0 /\ ri = 0 /\ cand = <<>>
  /\ result = <<>> /\ hist = <<>>

\* What a step of simulate() leaves alone in this state machine.
StepFrame == UNCHANGED <<PartVars, GravVars, RelaxVars>>

MaxSteps == 2          \* simulate() calls explored in one run
MaxLinkEvents == 1     \* links made plus links broken in one step, at most

StepParIds == {0, 1}
StepLocs == {<<0, 0, 0>>, <<1, 0, 0>>, <<0, 2, 1>>}
StepMasses == {0, 1, 2}
StepStates == {2, 3}
RotStrengths == {-1, 0, 1}

Impulse(src, axes, M) == [src |-> src, axes |-> axes, M |-> M, step |-> stepno]

\* Planar radius squared of particle i (part_001:329-330, 347-349).
PlanarR2(pl, i) ==
  pl[i].loc[1] * pl[i].loc[1] + pl[i].loc[2] * pl[i].loc[2]

\* part_001:351  "if r_xy < 0.001: continue", as r_xy^2 < 10^-6.
NearAxis(pl, i) == 1000000 * PlanarR2(pl, i) < 1

RECURSIVE EnclosedMassFrom(_, _, _)
\* part_001:356-361  the loop over j from j0 on: the masses it adds.
EnclosedMassFrom(pl, i, j0) ==
  IF j0 \notin DOMAIN pl THEN 0
  ELSE (IF pl[j0].mass > 0 /\ PlanarR2(pl, j0) <= PlanarR2(pl, i)
          THEN pl[j0].mass ELSE 0)
         + EnclosedMassFrom(pl, i, j0 + 1)

\* The loop with r_j < r_xy for its test: the particles strictly inside.
EnclosedMass_StrictlyInside(pl, i) ==
  SumOver([j \in DOMAIN pl |-> pl[j].mass],
          {j \in DOMAIN pl : pl[j].mass > 0 /\ PlanarR2(pl, j) < PlanarR2(pl, i)})

\* part_001:355-361  the enclosed mass of particle i.
EnclosedMass(pl, i) == EnclosedMassFrom(pl, i, 0)

\* part_001:343-364  the particles the seeder gives a tangential velocity.
Seeded(pl, i) ==
  /\ pl[i].mass > 0
  /\ ~NearAxis(pl, i)
  /\ EnclosedMass(pl, i) > 0

\* A seeder that sets the tangential velocity instead of adding it.
RotatedParlist_Replacing(pl) ==
  [i \in DOMAIN pl |->
     IF Seeded(pl, i)
     THEN [pl[i] EXCEPT !.vel = <<Impulse("rot", {0, 1}, EnclosedMass(pl, i))>>]
     ELSE pl[i]]

\* part_001:386-387  the particle array after the seeder's loop.
RotatedParlist(pl) ==
  [i \in DOMAIN pl |->
     IF Seeded(pl, i)
     THEN [pl[i] EXCEPT !.vel =
             Append(@, Impulse("rot", {0, 1}, EnclosedMass(pl, i)))]
     ELSE pl[i]]

\* part_001:392  what the seeder leaves in initial_rotation_applied.
RotationAppliedMark == 1

\* Variant of RotationDue without the latch (the applied flag is not read).
RotationDue_NoLatch ==
  /\ gravity_enabled = 1
  /\ initial_rotation_strength > 0

\* Variant of RotationDue that accepts a strength of either sign.
RotationDue_AnySign ==
  /\ gravity_enabled = 1
  /\ initial_rotation_strength # 0
  /\ initial_rotation_applied = 0

\* part_001:574  the guard of the seeder call.
RotationDue ==
  /\ gravity_enabled = 1
  /\ initial_rotation_strength > 0
  /\ initial_rotation_applied = 0

\* part_001:282-291  the gravity pass, as simulate() sees it: every particle
\* with state >= 3 gets force * deltatime added to all three components.
GravityParlist(pl) ==
  [i \in DOMAIN pl |->
     IF pl[i].state >= 3
     THEN [pl[i] EXCEPT !.vel = Append(@, Impulse("grav", {0, 1, 2}, 0))]
     ELSE pl[i]]

\* An integration that moves every particle, whatever its state.
IntegratedParlist_AnyState(pl) ==
  [i \in DOMAIN pl |-> [pl[i] EXCEPT !.moved = Append(@, Len(pl[i].vel))]]

\* part_001:631-635  position integration.
IntegratedParlist(pl) ==
  [i \in DOMAIN pl |->
     IF pl[i].state >= 3
     THEN [pl[i] EXCEPT !.moved = Append(@, Len(pl[i].vel))]
     ELSE pl[i]]

\* The phases in an order that integrates positions before the resolver.
NextPhase_IntegrateFirst(p) ==
  CASE p = "update" -> "partition"
    [] p = "partition" -> "hash"
    [] p = "hash" -> "query"
    [] p = "query" -> "gravity"
    [] p = "gravity" -> "rotation"
    [] p = "rotation" -> "integrate"
    [] p = "integrate" -> "resolve"
    [] p = "resolve" -> "export"
    [] p = "export" -> "idle"

\* part_001:437-689  the phase simulate() runs after phase p.
NextPhase(p) ==
  CASE p = "update" -> "partition"
    [] p = "partition" -> "hash"
    [] p = "hash" -> "query"
    [] p = "query" -> "gravity"
    [] p = "gravity" -> "rotation"
    [] p = "rotation" -> "resolve"
    [] p = "resolve" -> "integrate"
    [] p = "integrate" -> "export"
    [] p = "export" -> "idle"

\* part_001:606-612  collide and solve_link, as simulate() sees them: the
\* particles they hit get a velocity change.
ResolvedParlist(pl, hit) ==
  [i \in DOMAIN pl |->
     IF i \in hit
     THEN [pl[i] EXCEPT !.vel = Append(@, Impulse("resolve", {0, 1, 2}, 0))]
     ELSE pl[i]]

StepInit ==
  /\ pc = "idle"
  /\ stepno = 0
  /\ gravity_enabled \in {0, 1}
  /\ initial_rotation_strength \in RotStrengths
  /\ initial_rotation_applied = 0
  /\ parlist \in [StepParIds ->
                    [loc : StepLocs, vel : {<<>>}, moved : {<<>>},
                     mass : StepMasses, state : StepStates]]
  /\ cpunum \in {1, 2}
  /\ newlinks = 0
  /\ totallinks = 0
  /\ totaldeadlinks = 0
  /\ deadlinks = [w \in 0 .. cpunum - 1 |-> 0]
  /\ exported = <<>>
  /\ reported = <<>>
  /\ rot_runs = 0
  /\ trace = <<>>
  /\ PartIdle
  /\ GravIdle
  /\ RelaxIdle

\* A reset that clears the counter of the first worker only.
ResetDeadlinks_FirstOnly == [deadlinks EXCEPT ![0] = 0]

\* part_001:430-431  every per-worker dead-link counter is cleared.
ResetDeadlinks == [w \in 0 .. cpunum - 1 |-> 0]

\* part_001:429-437  entry: the per-step counters are reset, update() runs.
SimUpdate ==
  /\ StepFrame
  /\ pc = "idle"
  /\ stepno < MaxSteps
  /\ stepno' = stepno + 1
  /\ newlinks' = 0
  /\ deadlinks' = ResetDeadlinks
  /\ trace' = <<"update">>
  /\ pc' = NextPhase("update")
  /\ UNCHANGED <<gravity_enabled, initial_rotation_strength,
                 initial_rotation_applied, parlist, totallinks,
                 totaldeadlinks, cpunum, exported, reported, rot_runs>>

\* A phase that this state machine only records.
Phase(here) ==
  /\ pc = here
  /\ trace' = Append(trace, here)
  /\ pc' = NextPhase(here)

\* part_001:443-533  bounds, axis and binning (detailed in SpecPartition).
SimPartition ==
  /\ StepFrame
  /\ Phase("partition")
  /\ UNCHANGED <<stepno, gravity_enabled, initial_rotation_strength,
                 initial_rotation_applied, parlist, newlinks, totallinks,
                 totaldeadlinks, deadlinks, cpunum, exported, reported, rot_runs>>

\* part_001:540  SpatialHash_build.
SimHash ==
  /\ StepFrame
  /\ Phase("hash")
  /\ UNCHANGED <<stepno, gravity_enabled, initial_rotation_strength,
                 initial_rotation_applied, parlist, newlinks, totallinks,
                 totaldeadlinks, deadlinks, cpunum, exported, reported, rot_runs>>

\* part_001:547-562  the parallel neighbour query.
SimQuery ==
  /\ StepFrame
  /\ Phase("query")
  /\ UNCHANGED <<stepno, gravity_enabled, initial_rotation_strength,
                 initial_rotation_applied, parlist, newlinks, totallinks,
                 totaldeadlinks, deadlinks, cpunum, exported, reported, rot_runs>>

\* part_001:569-571  the gravity pass, run when gravity is enabled.
SimGravity ==
  /\ StepFrame
  /\ pc = "gravity"
  /\ pc' = NextPhase("gravity")
  /\ IF gravity_enabled = 1
     THEN /\ parlist' = GravityParlist(parlist)
          /\ trace' = Append(trace, "gravity")
     ELSE UNCHANGED <<parlist, trace>>
  /\ UNCHANGED <<stepno, gravity_enabled, initial_rotation_strength,
                 initial_rotation_applied, newlinks, totallinks,
                 totaldeadlinks, deadlinks, cpunum, exported, reported, rot_runs>>

\* part_001:574-575 with 297-392  the rotation seeder, run when due.
SimRotation ==
  /\ StepFrame
  /\ pc = "rotation"
  /\ pc' = NextPhase("rotation")
  /\ IF RotationDue
     THEN /\ parlist' = RotatedParlist(parlist)
          /\ initial_rotation_applied' = RotationAppliedMark
          /\ rot_runs' = rot_runs + 1
          /\ trace' = Append(trace, "rotation")
     ELSE UNCHANGED <<parlist, initial_rotation_applied, rot_runs, trace>>
  /\ UNCHANGED <<stepno, gravity_enabled, initial_rotation_strength,
                 newlinks, totallinks, totaldeadlinks, deadlinks, cpunum,
                 exported, reported>>

\* part_001:596-622  the two parity passes (detailed in SpecPartition).  What
\* collide and solve_link do is an input here: the links made, the links
\* broken, the latter counted by the worker (threadid) that broke them, and
\* the particles whose velocity they change.
SimResolve ==
  /\ StepFrame
  /\ Phase("resolve")
  /\ \E made \in 0 .. MaxLinkEvents, t \in 0 .. cpunum - 1 :
       \E broke \in 0 .. MaxLinkEvents - made :
         /\ newlinks' = newlinks + made
         /\ deadlinks' = [deadlinks EXCEPT ![t] = @ + broke]
  /\ \E hit \in {{}, DOMAIN parlist} : parlist' = ResolvedParlist(parlist, hit)
  /\ UNCHANGED <<stepno, gravity_enabled, initial_rotation_strength,
                 initial_rotation_applied, totallinks,
                 totaldeadlinks, cpunum, exported, reported, rot_runs>>

\* part_001:630-635  position integration.
SimIntegrate ==
  /\ StepFrame
  /\ Phase("integrate")
  /\ parlist' = IntegratedParlist(parlist)
  /\ UNCHANGED <<stepno, gravity_enabled, initial_rotation_strength,
                 initial_rotation_applied, newlinks, totallinks,
                 totaldeadlinks, deadlinks, cpunum, exported, reported, rot_runs>>

\* part_001:641-689  export: the arrays and the counters handed to the host.
SimExport ==
  /\ StepFrame
  /\ Phase("export")
  /\ LET pydeadlinks == SumOver(deadlinks, DOMAIN deadlinks) IN
       /\ totallinks' = totallinks + newlinks
       /\ totaldeadlinks' = totaldeadlinks + pydeadlinks
       /\ exported' = <<[i \in DOMAIN parlist |->
                           <<parlist[i].loc, parlist[i].moved>>],
                        [i \in DOMAIN parlist |-> parlist[i].vel],
                        newlinks, pydeadlinks,
                        totallinks + newlinks,
                        totaldeadlinks + pydeadlinks>>
       /\ reported' = Append(reported, <<newlinks, pydeadlinks>>)
  /\ UNCHANGED <<stepno, gravity_enabled, initial_rotation_strength,
                 initial_rotation_applied, parlist, newlinks, deadlinks,
                 cpunum, rot_runs>>

StepNext ==
  \/ SimUpdate
  \/ SimPartition
  \/ SimHash
  \/ SimQuery
  \/ SimGravity
  \/ SimRotation
  \/ SimResolve
  \/ SimIntegrate
  \/ SimExport

SpecStep == StepInit /\ [][StepNext]_vars

-----------------------------------------------------------------------------
(* Claims settled under SpecStep                                           *)

\* The "rot" impulses a particle's velocity holds.
RotImpulses(p) == SelectSeq(p.vel, LAMBDA e : e.src = "rot")

\* The rotation phase of the first step is over.
AfterFirstRotation ==
  /\ stepno = 1
  /\ pc \in {"resolve", "integrate", "export", "idle"}

\* C3: over any sequence of simulate() steps of one run the rotation seeder
\* executes at most once; once it has run, initial_rotation_applied stays 1
\* and no later step adds tangential velocity again, although gravity is
\* still enabled and the strength still positive.
C3_SeederRunsAtMostOnce ==
  /\ [](rot_runs <= 1)
  /\ [][initial_rotation_applied = 1 =>
          /\ initial_rotation_applied' = 1
          /\ rot_runs' = rot_runs
          /\ \A i \in DOMAIN parlist :
               RotImpulses(parlist'[i]) = RotImpulses(parlist[i])]_vars

\* C3 witness: a second step has passed its rotation phase with gravity on
\* and a positive strength, after the seeder ran in the first and gave some
\* particle a tangential velocity.
C3_Witness ==
  /\ stepno = 2
  /\ pc = "integrate"
  /\ gravity_enabled = 1
  /\ initial_rotation_strength > 0
  /\ rot_runs = 1
  /\ initial_rotation_applied = 1
  /\ \E i \in DOMAIN parlist : Len(RotImpulses(parlist[i])) = 1

\* C4 as stated: on the first step the seeder runs if gravity is enabled and
\* the strength is nonzero, of either sign, and does not run (the flag stays
\* 0) if gravity is disabled or the strength is zero.
C4_AsStated ==
  AfterFirstRotation =>
    /\ (gravity_enabled = 1 /\ initial_rotation_strength # 0
          => rot_runs = 1)
    /\ (gravity_enabled # 1 \/ initial_rotation_strength = 0
          => rot_runs = 0 /\ initial_rotation_applied = 0)

\* C4 amended: on the first step the seeder runs if gravity is enabled and
\* the strength is positive, and does not run (the flag stays 0) if gravity
\* is disabled or the strength is zero or negative.
C4_SeederRunsIffPositive ==
  AfterFirstRotation =>
    /\ (gravity_enabled = 1 /\ initial_rotation_strength > 0
          => rot_runs = 1 /\ initial_rotation_applied = 1)
    /\ (gravity_enabled # 1 \/ initial_rotation_strength <= 0
          => rot_runs = 0 /\ initial_rotation_applied = 0
             /\ \A i \in DOMAIN parlist : RotImpulses(parlist[i]) = <<>>)

\* C4 witness: the first step is past its rotation phase with gravity on and
\* a negative strength, and the seeder has not run.
C4_Witness ==
  /\ AfterFirstRotation
  /\ gravity_enabled = 1
  /\ initial_rotation_strength < 0
  /\ rot_runs = 0
  /\ initial_rotation_applied = 0

\* The order the spec gives the phases of a step.
PhaseOrder == <<"update", "partition", "hash", "query", "gravity", "rotation",
                "resolve", "integrate", "export">>
PhaseRank(p) ==
  CASE p = "update" -> 1 [] p = "partition" -> 2 [] p = "hash" -> 3
    [] p = "query" -> 4 [] p = "gravity" -> 5 [] p = "rotation" -> 6
    [] p = "resolve" -> 7 [] p = "integrate" -> 8 [] p = "export" -> 9
Ran(p) == \E k \in DOMAIN trace : trace[k] = p
\* The phase the step is about to run comes after phase p.
Past(p) ==
  /\ stepno >= 1
  /\ pc = "idle" \/ PhaseRank(pc) > PhaseRank(p)
\* The impulses a velocity received in the step in progress.
StepImpulses(p) == {k \in DOMAIN p.vel : p.vel[k].step = stepno}

\* C13: within every step the phases run in the order update, partition,
\* hash build, neighbour query, gravity (only if enabled), rotation seeding
\* (only when due), resolver, integration, export, none starting before the
\* one ahead of it is over; positions are integrated after every velocity
\* change of the step, and the exported arrays are the integrated state.
C13_PhasesRunInOrder ==
  /\ \A k \in 2 .. Len(trace) : PhaseRank(trace[k - 1]) < PhaseRank(trace[k])
  /\ \A k \in DOMAIN PhaseOrder :
       LET p == PhaseOrder[k] IN
         /\ Ran(p) => Past(p)
         /\ (Past(p) /\ p \notin {"gravity", "rotation"}) => Ran(p)
  /\ Past("gravity") => (Ran("gravity") <=> gravity_enabled = 1)
  /\ Past("rotation") =>
       /\ Ran("rotation") =>
            /\ gravity_enabled = 1 /\ initial_rotation_strength > 0
            /\ rot_runs = 1 /\ initial_rotation_applied = 1
       /\ ~Ran("rotation") =>
            \/ gravity_enabled # 1
            \/ initial_rotation_strength <= 0
            \/ stepno > 1 /\ rot_runs = 1
  /\ \A i \in DOMAIN parlist :
       /\ ~Past("integrate") => Len(parlist[i].moved) < stepno \/ stepno = 0
       /\ (Past("integrate") /\ parlist[i].state >= 3) =>
            /\ Len(parlist[i].moved) = stepno
            /\ parlist[i].moved[stepno] = Len(parlist[i].vel)
  /\ (pc = "idle" /\ stepno >= 1) =>
       /\ exported[1] = [i \in DOMAIN parlist |->
                           <<parlist[i].loc, parlist[i].moved>>]
       /\ exported[2] = [i \in DOMAIN parlist |-> parlist[i].vel]

\* C13 witness: a second step is over in which gravity, the seeder's first
\* step behind it, and the resolver changed the velocity of a live particle
\* before its position was integrated.
C13_Witness ==
  /\ pc = "idle" /\ stepno = 2
  /\ Ran("gravity") /\ ~Ran("rotation") /\ rot_runs = 1
  /\ \E i \in DOMAIN parlist :
       /\ parlist[i].state >= 3
       /\ Cardinality(StepImpulses(parlist[i])) = 2
       /\ Len(parlist[i].vel) = 5
       /\ exported[1][i][2] = <<3, 5>>

\* The particles the claims about the seeder speak of: with mass, and at a
\* planar radius of 0.001 or more.
OffAxisMassive(pl) == {i \in DOMAIN pl : pl[i].mass > 0 /\ ~NearAxis(pl, i)}
\* The sum of the masses of the massive particles within the planar radius
\* of particle i.
MassWithin(pl, i) ==
  SumOver([j \in DOMAIN pl |-> pl[j].mass],
          {j \in DOMAIN pl : pl[j].mass > 0 /\ PlanarR2(pl, j) <= PlanarR2(pl, i)})

C17_SeederAddsPlanarVelocityOnly ==
  [][(pc = "rotation" /\ pc' # "rotation") =>
       \A i \in DOMAIN parlist :
         /\ parlist'[i].loc = parlist[i].loc
         /\ parlist'[i].moved = parlist[i].moved
         /\ IF RotationDue /\ i \in OffAxisMassive(parlist)
              THEN /\ Len(parlist'[i].vel) = Len(parlist[i].vel) + 1
                   /\ SubSeq(parlist'[i].vel, 1, Len(parlist[i].vel))
                        = parlist[i].vel
                   /\ parlist'[i].vel[Len(parlist'[i].vel)].src = "rot"
                   /\ parlist'[i].vel[Len(parlist'[i].vel)].axes = {0, 1}
              ELSE parlist'[i].vel = parlist[i].vel]_vars
\* C17 witness: the seeder has just run; a live massive particle off the
\* axis holds its gravity impulse and then the seeder's, and a second live
\* particle, without mass or on the axis, holds its gravity impulse only.
C17_Witness ==
  /\ pc = "resolve" /\ stepno = 1 /\ rot_runs = 1
  /\ \E i \in OffAxisMassive(parlist) :
       /\ Len(parlist[i].vel) = 2
       /\ parlist[i].vel[1].src = "grav"
       /\ parlist[i].vel[2].src = "rot"
  /\ \E j \in DOMAIN parlist \ OffAxisMassive(parlist) :
       /\ Len(parlist[j].vel) = 1
       /\ parlist[j].vel[1].src = "grav"

\* The sum of component c of the per-step reports so far.
ReportedSum(c) ==
  SumOver([k \in DOMAIN reported |-> reported[k][c]], DOMAIN reported)

\* C18: the per-step counters are reset at the start of every step, and
\* after any sequence of steps the cumulative totals reported equal the sums
\* of the per-step new-link and dead-link counts reported so far (dead links
\* summed over the workers), so neither total ever decreases.
C18_TotalsAreSumsOfStepCounts ==
  /\ [](pc = "partition" =>
          newlinks = 0 /\ \A w \in DOMAIN deadlinks : deadlinks[w] = 0)
  /\ []((pc = "idle" /\ stepno >= 1) =>
          /\ Len(reported) = stepno
          /\ reported[stepno] = <<exported[3], exported[4]>>
          /\ exported[3] = newlinks
          /\ exported[4] = SumOver(deadlinks, DOMAIN deadlinks)
          /\ exported[5] = ReportedSum(1) /\ totallinks = exported[5]
          /\ exported[6] = ReportedSum(2) /\ totaldeadlinks = exported[6])
  /\ [][totallinks' >= totallinks /\ totaldeadlinks' >= totaldeadlinks]_vars
\* C18 witness: two steps are over; the first made a link, the second had
\* the second worker break one, and the totals report one of each.
C18_Witness ==
  /\ pc = "idle" /\ stepno = 2 /\ cpunum = 2
  /\ reported = <<(<<1, 0>>), (<<0, 1>>)>>
  /\ deadlinks[1] = 1
  /\ exported[5] = 1 /\ exported[6] = 1

-----------------------------------------------------------------------------
(* SpecPartition: part_001:443-533 and 596-622.  Bounds, axis selection,   *)
(* bin width, binning into the two parities, and the two parity passes     *)
(* run by cpunum workers under the dynamic schedule with chunks of two.    *)
(* Coordinates, sizes and link lengths are integers; maxSize is kept as    *)
(* the fraction n/d because line 489 divides by cpunum * 10.               *)

\* The other state machines idle.
StepIdle ==
  /\ pc = "off" /\ stepno = 0 /\ gravity_enabled = 0
  /\ initial_rotation_strength = 0 /\ initial_rotation_applied = 0
  /\ newlinks = 0 /\ totallinks = 0 /\ totaldeadlinks = 0
  /\ deadlinks = <<>> /\ exported = <<>> /\ reported = <<>>
  /\ rot_runs = 0 /\ trace = <<>>

PartParIds == {0, 1, 2}
PartLocs == {<<0, 0, 0>>, <<5, 0, 0>>, <<9, 0, 0>>,
             <<0, 9, 0>>, <<0, 0, 9>>, <<0, 9, 9>>}
PartSizes == {1, 2}
\* Particle systems: links on or off, adhesion off or on with a distance.
PartSystems ==
  [links_active : {0, 1},
   collision_adhesion_factor : {0, 1},
   collision_adhesion_distance : {0, 2}]
\* Rest lengths a link between particles 0 and 1 may have (0: no link).
PartLinkLengths == {0, 6, 10}

Dist2(a, b) ==
  (a[1] - b[1]) * (a[1] - b[1]) + (a[2] - b[2]) * (a[2] - b[2])
    + (a[3] - b[3]) * (a[3] - b[3])

\* <int>(a / b) for b > 0: C truncation toward zero.
TruncDiv(a, b) == IF a >= 0 THEN a \div b ELSE 0 - ((0 - a) \div b)

\* part_001:554-556  the neighbour-query radius of one particle.
QueryRadius(p) ==
  IF p.sys.collision_adhesion_factor > 0
    THEN Max2(p.size * 2, (p.size * 2) * (1 + p.sys.collision_adhesion_distance))
    ELSE p.size * 2

\* part_001:443-471  the bounds loop: extents and the largest diameter or
\* active link length.
BoundsOf(pl) ==
  LET ids == DOMAIN pl
      LinkLens(i) == IF pl[i].sys.links_active = 1
                       THEN {pl[i].links[k].lenght : k \in DOMAIN pl[i].links}
                       ELSE {}
  IN [min |-> [a \in 1 .. 3 |-> SetMin({pl[i].loc[a] : i \in ids})],
      max |-> [a \in 1 .. 3 |-> SetMax({pl[i].loc[a] : i \in ids})],
      maxSize |-> [n |-> SetMax(UNION {LinkLens(i) \cup {pl[i].size * 2}
                                         : i \in ids}),
                   d |-> 1]]

\* part_001:422-426  the pool as allocated: no axis chosen yet.
EmptyPool == [axis |-> -1, offset |-> 0, max |-> 0, parity |-> <<>>]

\* part_001:473-486  the three tests, applied in the order of the code.
SelectAxis(e, pool) ==
  LET X == e.max[1] - e.min[1]
      Y == e.max[2] - e.min[2]
      Z == e.max[3] - e.min[3]
      p0 == IF X >= Y /\ X >= Z
              THEN [pool EXCEPT !.axis = 0, !.offset = 0 - e.min[1],
                                !.max = e.max[1] - e.min[1]]
              ELSE pool
      p1 == IF Y > X /\ Y > Z
              THEN [p0 EXCEPT !.axis = 1, !.offset = 0 - e.min[2],
                              !.max = e.max[2] - e.min[2]]
              ELSE p0
  IN IF Z > Y /\ Z > X
       THEN [p1 EXCEPT !.axis = 2, !.offset = 0 - e.min[3],
                       !.max = e.max[3] - e.min[3]]
       ELSE p1

\* part_001:488-489  maxSize is raised to max / (cpunum * 10) if that is larger.
WidenedMaxSize(ms, pool, ncpu) ==
  IF pool.max * ms.d > ms.n * (ncpu * 10)
    THEN [n |-> pool.max, d |-> ncpu * 10]
    ELSE ms

\* part_001:494  scale = 1 / (maxSize * 2.1), so a coordinate c falls in
\* <int>(c * scale) = trunc(10 * d * c / (21 * n)).
BinIndex(c, ms) == TruncDiv(10 * ms.d * c, 21 * ms.n)

\* part_001:511-513  <int>((c * scale) % 2): C fmod keeps the sign of c.
BinParity(c, ms) ==
  IF c >= 0 THEN BinIndex(c, ms) % 2 ELSE 0 - ((0 - BinIndex(c, ms)) % 2)

\* part_001:499  the number of heaps of each parity.
NumHeaps(pool, ms) == BinIndex(pool.max, ms) + 1

\* part_001:503-508  an empty heap: room for 50 ids.
HeapMaxalloc == 50
EmptyHeap == [parnum |-> 0, maxalloc |-> HeapMaxalloc, cap |-> HeapMaxalloc,
              par |-> <<>>]

\* An append that never grows the array.
HeapPush_NoGrowth(h, id) ==
  [parnum |-> h.parnum + 1, maxalloc |-> h.maxalloc, cap |-> h.cap,
   par |-> Append(h.par, id)]

\* part_001:517-533  append an id to a heap, growing it when full.
HeapPush(h, id) ==
  LET n == h.parnum + 1
      grown == n > h.maxalloc
      ma == IF grown THEN (h.maxalloc * 5) \div 4 ELSE h.maxalloc
  IN [parnum |-> n, maxalloc |-> ma,
      cap |-> IF grown THEN ma + 2 ELSE h.cap,
      par |-> Append(h.par, id)]

\* The coordinates loc[axis] can yield.  With axis = -1 the read is outside
\* the array: any value may come back.
GarbageCoords == {0, 9}
AxisCoords(p, pool) ==
  IF pool.axis \in {0, 1, 2} THEN {p.loc[pool.axis + 1]} ELSE GarbageCoords

\* The particle lists update() can stage: every particle of one system,
\* particle 0 holding at most one link, to particle 1, of rest length L.
PartScenes(sys, L) ==
  {[i \in PartParIds |->
      [id |-> i, loc |-> locs[i], size |-> sizes[i], sys |-> sys,
       links |-> IF i = 0 /\ L > 0
                   THEN <<[lenght |-> L, partner |-> 1]>>
                   ELSE <<>>]]
     : locs \in [PartParIds -> PartLocs], sizes \in [PartParIds -> PartSizes]}

\* Scenes with more particles in one bin than a heap first holds: all of
\* size 1 at the origin but the last, which spans the x axis.
PartWideParnum == 64
PartWideScenes(sys) ==
  {[i \in 0 .. PartWideParnum - 1 |->
      [id |-> i,
       loc |-> IF i = PartWideParnum - 1 THEN <<9, 0, 0>> ELSE <<0, 0, 0>>,
       size |-> 1, sys |-> sys, links |-> <<>>]]}

\* The state simulate() starts its partition from: the particles as staged
\* by update() and the pool of part_001:422-426.  A link is not stretched
\* beyond its rest length.
PartInit ==
  /\ StepIdle
  /\ GravIdle
  /\ RelaxIdle
  /\ cpunum \in {1, 2}
  /\ \E sys \in PartSystems, L \in PartLinkLengths :
       /\ sys.collision_adhesion_factor = 0
            => sys.collision_adhesion_distance = 0
       /\ \/ parlist \in PartScenes(sys, L)
          \/ /\ L = 0 /\ sys.links_active = 0
             /\ sys.collision_adhesion_factor = 0
             /\ parlist \in PartWideScenes(sys)
       /\ Dist2(parlist[0].loc, parlist[1].loc) <= L * L \/ L = 0
  /\ ppc = "bounds"
  /\ ext = <<>>
  /\ parPool = EmptyPool
  /\ bini = 0 /\ pair = 0 /\ next_chunk = 0
  /\ todo = [w \in 0 .. cpunum - 1 |-> <<>>]
  /\ writers = [i \in DOMAIN parlist |-> {}]
  /\ visits = [i \in DOMAIN parlist |-> 0]
  /\ neighboursnum = [i \in DOMAIN parlist |-> 0]

PartFrame == UNCHANGED <<StepVars, GravVars, RelaxVars>>

\* part_001:443-471
PartBounds ==
  /\ ppc = "bounds"
  /\ ext' = BoundsOf(parlist)
  /\ ppc' = "axis"
  /\ UNCHANGED <<parPool, bini, pair, next_chunk, todo, writers, visits, neighboursnum>>
  /\ PartFrame

\* part_001:473-489
PartAxis ==
  /\ ppc = "axis"
  /\ parPool' = SelectAxis(ext, parPool)
  /\ ext' = [ext EXCEPT !.maxSize = WidenedMaxSize(@, parPool', cpunum)]
  /\ ppc' = "alloc"
  /\ UNCHANGED <<bini, pair, next_chunk, todo, writers, visits, neighboursnum>>
  /\ PartFrame

\* part_001:496-508
PartAlloc ==
  /\ ppc = "alloc"
  /\ parPool' = [parPool EXCEPT !.parity =
                   [pr \in 0 .. 1 |->
                      [h \in 0 .. NumHeaps(parPool, ext.maxSize) - 1 |->
                         EmptyHeap]]]
  /\ bini' = 0
  /\ ppc' = "bin"
  /\ UNCHANGED <<ext, pair, next_chunk, todo, writers, visits, neighboursnum>>
  /\ PartFrame

\* part_001:510-533  one iteration of the binning loop.  An index outside
\* the allocated heaps is a write through a wild pointer: the step is
\* recorded as corrupt and the run is not followed further.
PartBin ==
  /\ ppc = "bin"
  /\ bini < Cardinality(DOMAIN parlist)
  /\ \E c \in AxisCoords(parlist[bini], parPool) :
       LET cc == c + parPool.offset
           pr == BinParity(cc, ext.maxSize)
           h == BinIndex(cc, ext.maxSize)
       IN IF pr \in 0 .. 1 /\ h \in 0 .. NumHeaps(parPool, ext.maxSize) - 1
            THEN /\ parPool' = [parPool EXCEPT !.parity[pr][h] =
                                  HeapPush(@, parlist[bini].id)]
                 /\ bini' = bini + 1
                 /\ ppc' = ppc
            ELSE /\ ppc' = "corrupt"
                 /\ UNCHANGED <<parPool, bini>>
  /\ UNCHANGED <<ext, pair, next_chunk, todo, writers, visits, neighboursnum>>
  /\ PartFrame

\* part_001:547-562  what the neighbour query records for every particle:
\* the particles within its query radius, and the particle itself as well
\* when self is 1.
QueriedNeighbours(pl, self) ==
  [i \in DOMAIN pl |->
     self + Cardinality({q \in DOMAIN pl :
                           q # i /\ Dist2(pl[i].loc, pl[q].loc)
                                      <= QueryRadius(pl[i]) * QueryRadius(pl[i])})]

\* part_001:617-622  the neighbour count of a particle after its visit.
ConsumedNeighboursnum(n) == IF n > 1 THEN 0 ELSE n

\* part_001:539-597  hash, query, gravity and seeding leave the bins alone;
\* the query fills the neighbour lists, and the first parity pass opens.
PartStartPasses ==
  /\ ppc = "bin"
  /\ bini = Cardinality(DOMAIN parlist)
  /\ ppc' = "resolve"
  /\ pair' = 0
  /\ next_chunk' = 0
  /\ \E self \in {0, 1} : neighboursnum' = QueriedNeighbours(parlist, self)
  /\ UNCHANGED <<ext, parPool, bini, todo, writers, visits>>
  /\ PartFrame

\* What collide() and solve_link() on particle i write: the particle, the
\* particles inside its neighbour-query radius, and the partners of its
\* links when its system has links active.
WriteSet(pl, i) ==
  {i}
    \cup {q \in DOMAIN pl :
            q # i /\ Dist2(pl[i].loc, pl[q].loc)
                       <= QueryRadius(pl[i]) * QueryRadius(pl[i])}
    \cup (IF pl[i].sys.links_active = 1
            THEN {pl[i].links[k].partner : k \in DOMAIN pl[i].links}
            ELSE {})

\* The heaps of one chunk of the dynamic schedule (chunksize = 2).
ChunkSize == 2
ChunkHeaps(k, nheaps) ==
  {h \in 0 .. nheaps - 1 : k * ChunkSize <= h /\ h < (k + 1) * ChunkSize}

RECURSIVE HeapWork(_, _, _)
\* The <<heap, particle>> visits of heaps lo .. hi of one parity, in order.
HeapWork(heaps, lo, hi) ==
  IF lo > hi THEN <<>>
  ELSE [k \in 1 .. heaps[lo].parnum |-> <<lo, heaps[lo].par[k]>>]
         \o HeapWork(heaps, lo + 1, hi)

\* part_001:598-603  a free worker takes the next chunk of heaps.
ResClaim(w) ==
  /\ ppc = "resolve"
  /\ todo[w] = <<>>
  /\ LET nheaps == NumHeaps(parPool, ext.maxSize)
         hs == ChunkHeaps(next_chunk, nheaps)
     IN /\ hs # {}
        /\ todo' = [todo EXCEPT ![w] =
                      HeapWork(parPool.parity[pair], SetMin(hs), SetMax(hs))]
  /\ next_chunk' = next_chunk + 1
  /\ UNCHANGED <<ppc, ext, parPool, bini, pair, writers, visits, neighboursnum>>
  /\ PartFrame

\* part_001:604-622  collide, solve_link and the neighbour reset for the
\* next particle of the worker's heap.
ResProcess(w) ==
  /\ ppc = "resolve"
  /\ todo[w] # <<>>
  /\ LET h == Head(todo[w])[1]
         i == Head(todo[w])[2]
     IN /\ writers' = [x \in DOMAIN writers |->
                         IF x \in WriteSet(parlist, i)
                           THEN writers[x] \cup {[thread |-> w, heap |-> h]}
                           ELSE writers[x]]
        /\ visits' = [visits EXCEPT ![i] = @ + 1]
        /\ neighboursnum' = [neighboursnum EXCEPT
                               ![i] = ConsumedNeighboursnum(@)]
  /\ todo' = [todo EXCEPT ![w] = Tail(@)]
  /\ UNCHANGED <<ppc, ext, parPool, bini, pair, next_chunk>>
  /\ PartFrame

\* A loop that lets go once the last chunk is handed out, as a worksharing
\* loop without the join at its end would.
PassJoined_NoWait ==
  ChunkHeaps(next_chunk, NumHeaps(parPool, ext.maxSize)) = {}

\* part_001:598-603  each prange is a parallel region of its own: it is
\* left when every chunk is handed out and every worker is through.
PassJoined ==
  /\ ChunkHeaps(next_chunk, NumHeaps(parPool, ext.maxSize)) = {}
  /\ \A w \in DOMAIN todo : todo[w] = <<>>

\* part_001:597-598  the end of the parallel loop of one parity; the next
\* parity, or the end.
ResEndPass ==
  /\ ppc = "resolve"
  /\ PassJoined
  /\ IF pair = 0
       THEN /\ pair' = 1
            /\ next_chunk' = 0
            /\ writers' = [x \in DOMAIN writers |-> {}]
            /\ ppc' = ppc
       ELSE /\ ppc' = "done"
            /\ UNCHANGED <<pair, next_chunk, writers>>
  /\ UNCHANGED <<ext, parPool, bini, todo, visits, neighboursnum>>
  /\ PartFrame

PartNext ==
  \/ PartBounds
  \/ PartAxis
  \/ PartAlloc
  \/ PartBin
  \/ PartStartPasses
  \/ \E w \in DOMAIN todo : ResClaim(w)
  \/ \E w \in DOMAIN todo : ResProcess(w)
  \/ ResEndPass

SpecPartition == PartInit /\ [][PartNext]_vars

-----------------------------------------------------------------------------
(* Claims settled under SpecPartition                                      *)

Extent(a) == ext.max[a] - ext.min[a]
AxisChosen == ppc \in {"alloc", "bin", "resolve", "done", "corrupt"}

\* C9: for every set of positions the axis chosen is 0, 1 or 2 and its
\* extent is the largest of the three, ties included.  The code leaves the
\* axis at -1 when the Y and Z extents tie above the X extent.
C9_AxisIsLargestExtent ==
  AxisChosen =>
    /\ parPool.axis \in {0, 1, 2}
    /\ \A a \in 1 .. 3 : Extent(parPool.axis + 1) >= Extent(a)

\* The interaction radii of the scene: every query radius, and every link
\* length of a system with links active.
InteractionRadii ==
  {QueryRadius(parlist[i]) : i \in DOMAIN parlist}
    \cup UNION {IF parlist[i].sys.links_active = 1
                  THEN {parlist[i].links[k].lenght : k \in DOMAIN parlist[i].links}
                  ELSE {} : i \in DOMAIN parlist}

\* C10: the bin width 2.1 * maxSize is at least twice the largest
\* interaction radius: 21 * n / (10 * d) >= 2 * R.  maxSize leaves the
\* adhesion distance out, so the query radius of an adhesive system
\* outgrows the bins.
C10_BinWidthCoversInteraction ==
  AxisChosen =>
    \A R \in InteractionRadii :
      21 * ext.maxSize.n >= 2 * R * 10 * ext.maxSize.d

\* C1: within one parity pass no particle is written from two different
\* bins handled by two different workers.
C1_NoParticleWrittenByTwoBins ==
  ppc = "resolve" =>
    \A x \in DOMAIN writers :
      \A a \in writers[x], b \in writers[x] :
        a.thread # b.thread => a.heap = b.heap

\* The places <<parity, heap>> whose id list holds particle i, and the
\* number of entries that hold it.
BinPlaces(i) ==
  {pl \in (0 .. 1) \X (0 .. NumHeaps(parPool, ext.maxSize) - 1) :
     \E k \in DOMAIN parPool.parity[pl[1]][pl[2]].par :
       parPool.parity[pl[1]][pl[2]].par[k] = parlist[i].id}
BinEntries(i) ==
  SumOver([pl \in BinPlaces(i) |->
             Cardinality({k \in DOMAIN parPool.parity[pl[1]][pl[2]].par :
                            parPool.parity[pl[1]][pl[2]].par[k] = parlist[i].id})],
          BinPlaces(i))
Binned == ppc \in {"resolve", "done"}
PlacedByCoordinate ==
  \A i \in DOMAIN parlist :
    LET h == BinIndex(parlist[i].loc[parPool.axis + 1] + parPool.offset,
                      ext.maxSize)
    IN /\ h \in 0 .. NumHeaps(parPool, ext.maxSize) - 1
       /\ BinPlaces(i) = {<<h % 2, h>>}
       /\ BinEntries(i) = 1

\* C11: in every step each particle is placed in exactly one bin, at the
\* index floor((loc[axis] + offset) * scale), which lies among the allocated
\* bins, under the parity index mod 2; so collide and solve_link run exactly
\* once per particle.  With the axis left at -1 (C9) the coordinate read is
\* not a coordinate and the index can fall outside the bins.
C11_EachParticleInExactlyOneBin ==
  /\ ppc # "corrupt"
  /\ Binned => parPool.axis \in {0, 1, 2} /\ PlacedByCoordinate
  /\ ppc = "done" => \A i \in DOMAIN parlist : visits[i] = 1

\* The same for the steps in which one of the three axis tests held.
C11_WhenAnAxisWasChosen ==
  (AxisChosen /\ parPool.axis \in {0, 1, 2}) =>
    /\ ppc # "corrupt"
    /\ Binned => PlacedByCoordinate
    /\ ppc = "done" => \A i \in DOMAIN parlist : visits[i] = 1
C11_Reached ==
  /\ ppc = "done" /\ parPool.axis \in {0, 1, 2}
  /\ \E i \in DOMAIN parlist, j \in DOMAIN parlist :
       BinPlaces(i) # BinPlaces(j) /\ {BinPlaces(i), BinPlaces(j)} # {{<<0, 0>>}}
  /\ \E i \in DOMAIN parlist : \E pl \in BinPlaces(i) : pl[1] = 1

\* The particles filed under one parity, and the work of that parity that
\* some worker still holds.
FiledUnder(pr) == {i \in DOMAIN parlist : \E pl \in BinPlaces(i) : pl[1] = pr}
HeldWork(pr) ==
  {wk \in (DOMAIN todo) \X (1 .. Cardinality(DOMAIN parlist)) :
     wk[2] \in DOMAIN todo[wk[1]] /\ todo[wk[1]][wk[2]][1] % 2 = pr}

\* C12: in the resolver phase every bin of parity 0 has finished collide and
\* solve_link for all of its particles before any bin of parity 1 starts:
\* while the first pass runs no particle of parity 1 has been visited, and
\* once the second pass is open no worker holds work of parity 0 and every
\* particle of parity 0 has had its visit.
C12_ParityZeroBeforeParityOne ==
  ppc = "resolve" =>
    /\ pair = 0 => /\ \A i \in FiledUnder(1) : visits[i] = 0
                   /\ HeldWork(1) = {}
    /\ pair = 1 => /\ \A i \in FiledUnder(0) : visits[i] = 1
                   /\ HeldWork(0) = {}
C12_Witness ==
  /\ ppc = "resolve" /\ parPool.axis \in {0, 1, 2} /\ cpunum = 2
  /\ pair = 1
  /\ Cardinality(FiledUnder(0)) = 2
  /\ NumHeaps(parPool, ext.maxSize) >= 3
  /\ HeldWork(1) # {}

\* The particles the resolver has processed.
Processed == {i \in DOMAIN parlist : visits[i] >= 1}

\* C25: after the resolver phase of a step the transient neighbour list of
\* every processed particle has been cleared (neighboursnum = 0), whatever
\* number of neighbours the query had recorded for it.
C25_NeighbourListsCleared ==
  ppc = "done" => \A i \in Processed : neighboursnum[i] = 0

\* What does hold: a count above 1 is cleared, a count of 1 is left.
C25_ClearedWhenAboveOne ==
  ppc = "done" => \A i \in Processed : neighboursnum[i] <= 1
\* Every particle processed, and one of them still with a neighbour count
\* of 1 when the resolver is through.
C25_CountOfOneLeft ==
  /\ ppc = "done"
  /\ Processed = DOMAIN parlist
  /\ \E i, j \in Processed : neighboursnum[i] = 1 /\ neighboursnum[j] = 0

\* The heaps of the pool, as <<parity, index>>.
AllHeaps ==
  {ph \in (0 .. 1) \X (0 .. NumHeaps(parPool, ext.maxSize) - 1) :
     ph[1] \in DOMAIN parPool.parity /\ ph[2] \in DOMAIN parPool.parity[ph[1]]}

\* Every id a heap holds was written below the capacity of its array, and
\* the capacity is the 50 entries of the start or maxalloc + 2 after a
\* growth to int(1.25 * maxalloc).
HeapsWithinCapacity ==
  \A ph \in AllHeaps :
    LET h == parPool.parity[ph[1]][ph[2]] IN
      /\ Len(h.par) = h.parnum
      /\ h.parnum <= h.cap
      /\ h.parnum <= h.maxalloc
      /\ \/ h.maxalloc = HeapMaxalloc /\ h.cap = HeapMaxalloc
         \/ h.maxalloc \in {62, 77} /\ h.cap = h.maxalloc + 2

C30_WhenAnAxisWasChosen ==
  (ppc # "off" /\ parPool.axis \in {0, 1, 2}) =>
    /\ ppc # "corrupt"
    /\ ppc \in {"bin", "resolve", "done"} => HeapsWithinCapacity
\* A bin that took 63 particles and grew twice, to 62 and to 77.
C30_GrownTwice ==
  /\ ppc = "resolve"
  /\ parPool.axis = 0
  /\ \E ph \in AllHeaps :
       /\ parPool.parity[ph[1]][ph[2]].parnum = 63
       /\ parPool.parity[ph[1]][ph[2]].maxalloc = 77
       /\ parPool.parity[ph[1]][ph[2]].cap = 79

-----------------------------------------------------------------------------
(* SpecGravity: part_001:80-294.  One call of apply_barnes_hut_gravity:    *)
(* bounding box, the arena-backed octree, serial insertion, and the force  *)
(* loop run by the workers under the dynamic schedule with chunks of 64.   *)
(*                                                                         *)
(* Positions and masses are integers.  A node keeps S, the mass-weighted   *)
(* sum of the positions below it, so that com = S / mass is what lines     *)
(* 145-147 maintain.                                                       *)
(*                                                                         *)
(* A node's centre is compared only with particles that reached the node   *)
(* through their own octant tests, so the node is the cell of the regular  *)
(* grid of depth d that holds the particle.  With H = largest extent + 2   *)
(* (twice the root half size of line 261) and U = 2p - (min + max) + H     *)
(* (twice the distance of p from the low face of the root, 0 < U < 2H),    *)
(* the cells of depth d are H / 2^d wide, and 2^(d+1) * (p - centre) is    *)
(* ((2^d * U) mod 2H) - H.  The test "p >= centre" of get_octant is the    *)
(* sign of that number, which halving the cell as lines 166-168 do         *)
(* reproduces: the remainder doubles modulo 2H from one depth to the next. *)

NULL == -1

\* part_001:243-250  the bounding box of the alive particles.
AliveIds(pl) == {i \in DOMAIN pl : pl[i].state >= 3}

BBoxOf(pl) ==
  [min |-> [a \in 1 .. 3 |-> SetMin({pl[i].loc[a] : i \in AliveIds(pl)})],
   max |-> [a \in 1 .. 3 |-> SetMax({pl[i].loc[a] : i \in AliveIds(pl)})]]

\* part_001:256-261  twice the root half size: largest extent plus margin.
RootSize(bb) == SetMax({bb.max[a] - bb.min[a] : a \in 1 .. 3}) + 2

\* 2^d modulo m, for 0 <= d <= 60, without leaving 32 bits.
PowMod2(d, m) == (((2 ^ (d \div 2)) % m) * ((2 ^ (d - d \div 2)) % m)) % m

\* 2^(d+1) * (coordinate - centre) along axis a, for the node at depth d
\* on the particle's own path.
ParR(x, bb, a, d) ==
  LET H == RootSize(bb)
      U == 2 * x - (bb.min[a] + bb.max[a]) + H
  IN ((PowMod2(d, 2 * H) * U) % (2 * H)) - H

\* part_001:80-87  get_octant against the centre of the node at depth d.
get_octant(p, bb, d) ==
  (IF ParR(p.loc[1], bb, 1, d) >= 0 THEN 1 ELSE 0)
    + (IF ParR(p.loc[2], bb, 2, d) >= 0 THEN 2 ELSE 0)
    + (IF ParR(p.loc[3], bb, 3, d) >= 0 THEN 4 ELSE 0)

\* part_001:96-105  a node as allocate_node initialises it.
FreshNode(depth) ==
  [is_leaf |-> 1, particle_id |-> -1, num_particles |-> 0, mass |-> 0,
   S |-> <<0, 0, 0>>, children |-> [j \in 0 .. 7 |-> NULL], depth |-> depth]

\* allocate_node without the test of line 92.
allocate_node_Unchecked(tree, depth) ==
  [tree |-> [tree EXCEPT
               !.node_pool = (tree.next_free :> FreshNode(depth)) @@ @,
               !.next_free = @ + 1],
   node |-> tree.next_free]

\* part_001:90-106  allocate_node: the index of the new node, or NULL when
\* the arena is used up.  refused counts the NULL returns (history).
allocate_node(tree, depth) ==
  IF tree.next_free >= tree.pool_size
    THEN [tree |-> [tree EXCEPT !.refused = @ + 1], node |-> NULL]
    ELSE [tree |-> [tree EXCEPT
                      !.node_pool = (tree.next_free :> FreshNode(depth)) @@ @,
                      !.next_free = @ + 1],
          node |-> tree.next_free]

\* part_001:109-120  Octree_create.
Octree_create(max_particles, theta, softening) ==
  [pool_size |-> max_particles * 2, node_pool |-> <<>>, next_free |-> 0,
   root |-> NULL, theta |-> theta, softening |-> softening, refused |-> 0]

MaxDepth == 50

\* part_001:161-172 and 180-191  the child in the particle's octant, newly
\* allocated if there is none; node is NULL when the arena had no node left
\* (the "return" of lines 165 and 184).
ChildFor(tree, nid, pid, pl, bb, depth) ==
  LET octant == get_octant(pl[pid], bb, depth)
      child == tree.node_pool[nid].children[octant]
      al == allocate_node(tree, depth + 1)
  IN IF child # NULL THEN [tree |-> tree, node |-> child]
     ELSE IF al.node = NULL THEN al
     ELSE [tree |-> [al.tree EXCEPT
                       !.node_pool[nid].children[octant] = al.node],
           node |-> al.node]

\* The same invocation without the depth test of line 134.
Octree_insert_leaf_NoDepthLimit(tree, nid, pid, pl, depth) ==
  IF nid = NULL THEN tree
  ELSE [tree EXCEPT
          !.node_pool[nid].S =
             [a \in 1 .. 3 |-> @[a] + pl[pid].loc[a] * pl[pid].mass],
          !.node_pool[nid].mass = @ + pl[pid].mass,
          !.node_pool[nid].num_particles = @ + 1,
          !.node_pool[nid].particle_id = pl[pid].id]

\* part_001:134-154  an invocation of Octree_insert on a node that is NULL,
\* too deep, or a leaf without a particle: it returns without a call.
Octree_insert_leaf(tree, nid, pid, pl, depth) ==
  IF nid = NULL \/ depth > MaxDepth THEN tree
  ELSE [tree EXCEPT
          !.node_pool[nid].S =
             IF tree.node_pool[nid].mass + pl[pid].mass > 0
               THEN [a \in 1 .. 3 |-> @[a] + pl[pid].loc[a] * pl[pid].mass]
               ELSE @,
          !.node_pool[nid].mass = @ + pl[pid].mass,
          !.node_pool[nid].num_particles = @ + 1,
          !.node_pool[nid].particle_id = pl[pid].id]

\* part_001:131-195  one invocation of Octree_insert: the tree it leaves,
\* and in call the child on which it makes the call of lines 192-195 (NULL
\* when it returned before).  The call of lines 173-176 for the particle
\* the leaf held is made on a child allocated in the line before, a leaf
\* without a particle, so it is an invocation of the first kind.
Octree_insert(tree, nid, pid, pl, bb, depth) ==
  IF nid = NULL \/ depth > MaxDepth THEN [tree |-> tree, call |-> NULL]
  ELSE
    LET node == tree.node_pool[nid]
        total_mass == node.mass + pl[pid].mass
        t1 == [tree EXCEPT
                 !.node_pool[nid].S =
                    IF total_mass > 0
                      THEN [a \in 1 .. 3 |->
                              @[a] + pl[pid].loc[a] * pl[pid].mass]
                      ELSE @,
                 !.node_pool[nid].mass = total_mass,
                 !.node_pool[nid].num_particles = @ + 1]
        \* lines 157-177: subdivide and put the existing particle back
        ce == ChildFor([t1 EXCEPT !.node_pool[nid].is_leaf = 0],
                       nid, node.particle_id, pl, bb, depth)
        t4 == [Octree_insert_leaf(ce.tree, ce.node, node.particle_id, pl,
                                  depth + 1)
                 EXCEPT !.node_pool[nid].particle_id = -1]
        \* lines 180-191: the child for the new particle
        cn == ChildFor(IF node.is_leaf = 1 THEN t4 ELSE t1,
                       nid, pid, pl, bb, depth)
    IN IF node.is_leaf = 1 /\ node.particle_id = -1
         THEN [tree |-> Octree_insert_leaf(tree, nid, pid, pl, depth),
               call |-> NULL]
         ELSE IF node.is_leaf = 1 /\ ce.node = NULL
           THEN [tree |-> ce.tree, call |-> NULL]
           ELSE [tree |-> cn.tree, call |-> cn.node]

\* part_001:218  size / dist < theta, with size = 2 * half_size =
\* RootSize / 2^depth, dist^2 = |com - p|^2 + softening^2 and theta = n/d:
\*   RootSize^2 * d^2 * mass^2 < n^2 * 4^depth * (|S - mass*p|^2 + soft^2 * mass^2).
\* A zero dist makes the quotient infinite, which is not below theta.  The
\* left side stays below 4^15, so deeper nodes compare as depth 15 does.
FarEnough(tree, bb, node, p) ==
  LET D2 == (node.S[1] - node.mass * p.loc[1]) * (node.S[1] - node.mass * p.loc[1])
            + (node.S[2] - node.mass * p.loc[2]) * (node.S[2] - node.mass * p.loc[2])
            + (node.S[3] - node.mass * p.loc[3]) * (node.S[3] - node.mass * p.loc[3])
            + tree.softening * tree.softening * node.mass * node.mass
      lhs == RootSize(bb) * RootSize(bb) * tree.theta.d * tree.theta.d
               * node.mass * node.mass
  IN /\ tree.theta.n > 0
     /\ D2 > 0
     /\ lhs \div (4 ^ Min2(node.depth, 15)) < tree.theta.n * tree.theta.n * D2

\* part_001:220-223  one point-mass term: the mass and where it sits.
Term(node) == [mass |-> node.mass, S |-> node.S]

\* part_001:198-228  one invocation of Octree_calculate_force: the term it
\* adds to force, if any, and the children it calls itself on, in order.
Octree_calculate_force(tree, bb, nid, p) ==
  LET node == tree.node_pool[nid]
      NotNull(c) == c # NULL
  IN IF nid = NULL THEN [term |-> <<>>, calls |-> <<>>]
     ELSE IF node.num_particles = 0 THEN [term |-> <<>>, calls |-> <<>>]
     ELSE IF node.is_leaf = 1 /\ node.particle_id = p.id
       THEN [term |-> <<>>, calls |-> <<>>]
     ELSE IF node.is_leaf = 1 \/ FarEnough(tree, bb, node, p)
       THEN [term |-> <<Term(node)>>, calls |-> <<>>]
       ELSE [term |-> <<>>,
             calls |-> SelectSeq([j \in 1 .. 8 |-> node.children[j - 1]],
                                 NotNull)]

\* The scenes and parameters of a gravity pass.
GravMaxMass == 1
GravLocs == {<<0, 0, 0>>, <<1, 0, 0>>, <<16, 0, 0>>, <<0, 1, 1>>}
GravStates == {2, 3}
GravSmallIds == {0, 1, 2}
\* Opening angle n/d and softening length.
GravParams == {[theta |-> [n |-> 0, d |-> 1], softening |-> 0],
               [theta |-> [n |-> 1, d |-> 2], softening |-> 1],
               [theta |-> [n |-> 1, d |-> 1], softening |-> 0]}

GravParticle(i, loc, mass, state) ==
  [id |-> i, loc |-> loc, mass |-> mass, state |-> state, vel |-> <<>>]

\* Three particles, each anywhere, of any mass, alive or not.
GravSmallScenes ==
  {[i \in GravSmallIds |-> GravParticle(i, l[i], m[i], s[i])]
     : l \in [GravSmallIds -> GravLocs],
       m \in [GravSmallIds -> 0 .. GravMaxMass],
       s \in [GravSmallIds -> GravStates]}

\* Scenes wider than one chunk of the force loop: 66 particles of which
\* 0, 1 and 64 are alive, the first two apart or on the same spot.
GravWideParnum == 66
GravWideScenes ==
  {[i \in 0 .. GravWideParnum - 1 |->
      IF i = 0 THEN GravParticle(i, <<0, 0, 0>>, 1, 3)
      ELSE IF i = 1 THEN GravParticle(i, l1, 1, 3)
      ELSE IF i = 64 THEN GravParticle(i, <<16, 0, 0>>, 1, 3)
      ELSE GravParticle(i, <<0, 0, 0>>, 1, 2)]
     : l1 \in {<<0, 0, 0>>, <<1, 0, 0>>}}

\* Scenes with a particle in the corner of an octant: particle 0 spans the
\* box, particle 1 sits at its centre, 2 and 3 near the far corner.
GravCornerScenes ==
  {[i \in 0 .. 3 |->
      IF i = 0 THEN GravParticle(i, <<0, 0, 0>>, 1, 3)
      ELSE IF i = 1 THEN GravParticle(i, <<16, 16, 16>>, 1, 3)
      ELSE IF i = 2 THEN GravParticle(i, <<32, 32, 32>>, 1, 3)
      ELSE GravParticle(i, <<32, 32, z>>, 1, 3)]
     : z \in {24, 28}}

GravParnum(pl) == Cardinality(DOMAIN pl)

\* No call of Octree_insert in progress.
NoCall == [node |-> NULL, depth |-> 0]

\* A worker at iteration i of a chunk that ends at hi: stack holds the
\* nodes its walk has still to visit, own the terms the walk has added.
WorkerAt(i, hi) ==
  [i |-> i, hi |-> hi, stack |-> <<>>, own |-> <<>>,
   phase |-> IF i = -1 THEN "idle" ELSE "reset"]

\* The state apply_barnes_hut_gravity is entered in.
GravInit ==
  /\ StepIdle
  /\ PartIdle
  /\ RelaxIdle
  /\ \/ cpunum = 1 /\ parlist \in GravSmallScenes \cup {<<>>}
     \/ cpunum \in {1, 2} /\ parlist \in GravWideScenes
     \/ cpunum = 1 /\ parlist \in GravCornerScenes
  /\ \E gp \in GravParams :
       /\ gravity_theta = gp.theta
       /\ gravity_softening = gp.softening
  /\ gpc = "bounds"
  /\ bbox = <<>>
  /\ octree = NULL
  /\ gi = 0
  /\ ins = NoCall
  /\ gchunk = 0
  /\ gwork = [w \in 0 .. cpunum - 1 |-> WorkerAt(-1, -1)]
  /\ force = <<>>
  /\ offered = {}
  /\ refusals = <<>>
  /\ walks = <<>>

GravFrame == UNCHANGED <<pc, stepno, gravity_enabled, initial_rotation_strength,
                         initial_rotation_applied, newlinks, totallinks,
                         totaldeadlinks, deadlinks, cpunum, exported, reported, rot_runs,
                         trace, PartVars, RelaxVars, gravity_theta,
                         gravity_softening>>

\* part_001:243-261  With no particle alive the box keeps its sentinels and
\* is read by nothing but the root's centre.
GravBounds ==
  /\ gpc = "bounds"
  /\ bbox' = IF AliveIds(parlist) = {}
               THEN [min |-> <<0, 0, 0>>, max |-> <<0, 0, 0>>]
               ELSE BBoxOf(parlist)
  /\ gpc' = "create"
  /\ UNCHANGED <<parlist, octree, gi, ins, gchunk, gwork, force, offered, refusals,
                 walks>>
  /\ GravFrame

\* part_001:264-274  the tree and its root; without a root the call returns.
GravCreate ==
  /\ gpc = "create"
  /\ LET al == allocate_node(Octree_create(GravParnum(parlist), gravity_theta,
                                           gravity_softening), 0)
     IN IF al.node = NULL
          THEN /\ octree' = NULL
               /\ gpc' = "done"
          ELSE /\ octree' = [al.tree EXCEPT !.root = al.node]
               /\ gpc' = "insert"
  /\ gi' = 0
  /\ UNCHANGED <<parlist, bbox, ins, gchunk, gwork, force, offered, refusals,
                 walks>>
  /\ GravFrame

\* part_001:277-279  one iteration of the insertion loop: a particle that
\* is alive and has mass is handed to Octree_insert at the root.
GravInsert ==
  /\ gpc = "insert"
  /\ ins = NoCall
  /\ gi < GravParnum(parlist)
  /\ IF parlist[gi].state >= 3 /\ parlist[gi].mass > 0
       THEN /\ offered' = offered \cup {gi}
            /\ ins' = [node |-> octree.root, depth |-> 0]
            /\ gi' = gi
       ELSE /\ gi' = gi + 1
            /\ UNCHANGED <<offered, ins>>
  /\ UNCHANGED <<parlist, bbox, octree, gpc, gchunk, gwork, force, refusals,
                 walks>>
  /\ GravFrame

\* part_001:131-195  one invocation of Octree_insert; its closing call on
\* the child is the next invocation, and its return ends the iteration.
GravInsertCall ==
  /\ gpc = "insert"
  /\ ins # NoCall
  /\ \E r \in {Octree_insert(octree, ins.node, gi, parlist, bbox, ins.depth)} :
        /\ octree' = r.tree
        /\ refusals' = IF r.tree.refused > octree.refused
                         THEN Append(refusals, gi) ELSE refusals
        /\ IF r.call = NULL
             THEN ins' = NoCall /\ gi' = gi + 1
             ELSE ins' = [node |-> r.call, depth |-> ins.depth + 1] /\ gi' = gi
  /\ UNCHANGED <<parlist, bbox, gpc, gchunk, gwork, force, offered,
                 walks>>
  /\ GravFrame

\* part_001:282  the parallel loop opens.
GravStartForces ==
  /\ gpc = "insert"
  /\ gi = GravParnum(parlist)
  /\ gpc' = "forces"
  /\ gchunk' = 0
  /\ UNCHANGED <<parlist, bbox, octree, gi, ins, gwork, force, offered, refusals,
                 walks>>
  /\ GravFrame

GravChunkSize == 64

\* The first alive particle among from .. hi, or -1: the iterations of
\* line 283 that do nothing are passed over.
NextAlive(pl, from, hi) ==
  LET c == {k \in from .. hi : pl[k].state >= 3}
  IN IF c = {} THEN -1 ELSE SetMin(c)

\* part_001:282  a free worker takes the next chunk of 64 iterations.
ForceClaim(w) ==
  /\ gpc = "forces"
  /\ gwork[w].phase = "idle"
  /\ gchunk * GravChunkSize < GravParnum(parlist)
  /\ LET lo == gchunk * GravChunkSize
         hi == Min2(lo + GravChunkSize, GravParnum(parlist)) - 1
     IN gwork' = [gwork EXCEPT ![w] = WorkerAt(NextAlive(parlist, lo, hi), hi)]
  /\ gchunk' = gchunk + 1
  /\ UNCHANGED <<parlist, bbox, octree, gpc, gi, ins, force, offered, refusals,
                 walks>>
  /\ GravFrame

\* part_001:284-287  the worker zeroes force and calls the walk on the
\* root.  force is the one array of line 240, the same for every worker.
ForceReset(w) ==
  /\ gpc = "forces"
  /\ gwork[w].phase = "reset"
  /\ force' = <<>>
  /\ gwork' = [gwork EXCEPT ![w].stack = <<octree.root>>,
                            ![w].phase = "walk"]
  /\ UNCHANGED <<parlist, bbox, octree, gpc, gi, ins, gchunk, offered, refusals,
                 walks>>
  /\ GravFrame

\* part_001:198-228  the next invocation of the worker's walk.
ForceVisit(w) ==
  /\ gpc = "forces"
  /\ gwork[w].phase = "walk"
  /\ gwork[w].stack # <<>>
  /\ \E r \in {Octree_calculate_force(octree, bbox, Head(gwork[w].stack),
                                       parlist[gwork[w].i])} :
       /\ force' = force \o r.term
       /\ gwork' = [gwork EXCEPT ![w].stack = r.calls \o Tail(@),
                                 ![w].own = @ \o r.term]
  /\ UNCHANGED <<parlist, bbox, octree, gpc, gi, ins, gchunk, offered, refusals,
                 walks>>
  /\ GravFrame

\* part_001:289-291  vel += force * deltatime, then on to the next particle.
ForceUpdate(w) ==
  /\ gpc = "forces"
  /\ gwork[w].phase = "walk"
  /\ gwork[w].stack = <<>>
  /\ parlist' = [parlist EXCEPT ![gwork[w].i].vel = Append(@, force)]
  /\ walks' = (gwork[w].i :> gwork[w].own) @@ walks
  /\ gwork' = [gwork EXCEPT ![w] =
                 WorkerAt(NextAlive(parlist, gwork[w].i + 1, gwork[w].hi),
                          gwork[w].hi)]
  /\ UNCHANGED <<bbox, octree, gpc, gi, ins, gchunk, force, offered, refusals>>
  /\ GravFrame

\* part_001:293-294  every chunk handed out and every worker through: the
\* tree is destroyed and the call returns.
GravEnd ==
  /\ gpc = "forces"
  /\ gchunk * GravChunkSize >= GravParnum(parlist)
  /\ \A w \in DOMAIN gwork : gwork[w].phase = "idle"
  /\ octree' = NULL
  /\ gpc' = "done"
  /\ UNCHANGED <<parlist, bbox, gi, ins, gchunk, gwork, force, offered, refusals,
                 walks>>
  /\ GravFrame

GravNext ==
  \/ GravBounds
  \/ GravCreate
  \/ GravInsert
  \/ GravInsertCall
  \/ GravStartForces
  \/ \E w \in DOMAIN gwork : ForceClaim(w)
  \/ \E w \in DOMAIN gwork : ForceReset(w)
  \/ \E w \in DOMAIN gwork : ForceVisit(w)
  \/ \E w \in DOMAIN gwork : ForceUpdate(w)
  \/ GravEnd

SpecGravity == GravInit /\ [][GravNext]_vars

-----------------------------------------------------------------------------
(* Claims settled under SpecGravity                                        *)

\* The particles line 278 passes to Octree_insert.
Insertable(pl) == {i \in DOMAIN pl : pl[i].state >= 3 /\ pl[i].mass > 0}

\* C7: when the node arena is used up during an insertion, allocate_node
\* hands out no node and next_free stays within pool_size; nothing is
\* signalled, the particles after it are still offered to the tree, and the
\* pass still updates every alive particle and returns.
C7_ArenaExhaustionIsSilent ==
  /\ gpc \in {"insert", "forces"} => octree.next_free <= octree.pool_size
  /\ gpc \in {"forces", "done"} /\ GravParnum(parlist) > 0
       => offered = Insertable(parlist)
  /\ gpc = "done" /\ GravParnum(parlist) > 0
       => \A i \in AliveIds(parlist) : Len(parlist[i].vel) = 1

\* A pass that returned after an insertion met the full arena, with a later
\* particle offered to the tree all the same and the forces applied.
C7_Witness ==
  /\ gpc = "done"
  /\ \E k \in 1 .. Len(refusals) : \E j \in offered : j > refusals[k]
  /\ \E i \in AliveIds(parlist) : Len(parlist[i].vel) = 1

\* How often a term occurs in a sequence of terms.
Occurrences(t, seq) == Cardinality({k \in DOMAIN seq : seq[k] = t})

\* The terms of brute-force pairwise summation for particle i: one for
\* every other alive particle of positive mass, at its place, with its mass.
PairwiseTerm(q) == [mass |-> q.mass, S |-> [a \in 1 .. 3 |-> q.loc[a] * q.mass]]
PairwiseCount(pl, i, t) ==
  Cardinality({j \in Insertable(pl) : j # i /\ PairwiseTerm(pl[j]) = t})

\* C8: with theta = 0 the walk for every alive particle yields exactly the
\* terms of pairwise summation, for every configuration.  A particle the
\* full arena turned away is in no leaf, so its term is missing.
C8_ThetaZeroIsPairwise ==
  gpc = "forces" /\ gravity_theta.n = 0 =>
    \A i \in DOMAIN walks :
      /\ \A k \in DOMAIN walks[i] :
           Occurrences(walks[i][k], walks[i])
             = PairwiseCount(parlist, i, walks[i][k])
      /\ \A j \in Insertable(parlist) \ {i} :
           Occurrences(PairwiseTerm(parlist[j]), walks[i])
             = PairwiseCount(parlist, i, PairwiseTerm(parlist[j]))

\* C2: the force loop is free of data races, so the velocity change of a
\* particle is what its own walk accumulated.  The array force is one for
\* all workers: a second worker zeroes it or adds to it in between.
C2_VelocityChangeIsOwnWalk ==
  gpc = "forces" =>
    \A i \in DOMAIN walks : parlist[i].vel[1] = walks[i]

\* The particles without mass, and what the tree holds: the mass and the
\* particle count of the root.
Massless(pl) == {i \in DOMAIN pl : pl[i].mass <= 0}
VelocityUnchanged(p) == \A k \in DOMAIN p.vel : p.vel[k] = <<>>

\* C15: a particle with mass <= 0 is excluded from gravity: it is never
\* inserted into the octree, and the pass leaves its velocity unchanged,
\* whatever its state.  The force loop tests the state only, so a live
\* particle without mass is accelerated by the others.
C15_MasslessExcludedFromGravity ==
  /\ \A i \in Massless(parlist) : i \notin offered
  /\ gpc = "done" => \A i \in Massless(parlist) : VelocityUnchanged(parlist[i])

\* The part of C15 about the tree: no particle without mass is passed to
\* Octree_insert, and the root holds the mass of the others only.
C15_MasslessNeverInserted ==
  /\ \A i \in Massless(parlist) : i \notin offered
  /\ gpc = "forces" =>
       /\ octree.node_pool[octree.root].num_particles
            = Cardinality(Insertable(parlist))
       /\ octree.node_pool[octree.root].mass
            = SumOver([i \in DOMAIN parlist |-> parlist[i].mass],
                      Insertable(parlist))

\* The nodes of the built tree, and for a node the children it points to.
BuiltNodes == DOMAIN octree.node_pool
ChildSlots(n) == {j \in 0 .. 7 : octree.node_pool[n].children[j] # NULL}
ChildOf(n, j) == octree.node_pool[octree.node_pool[n].children[j]]

\* A node agrees with what is below it: a leaf carries the mass, the count
\* and the weighted position of the particle it holds (nothing when it holds
\* none), an internal node the sums of its children.  Holding for every
\* node, this is the statement that each node carries the sums over the
\* particles in the leaves of its subtree.
NodeAgrees(n) ==
  LET node == octree.node_pool[n]
      held_here == IF node.particle_id = -1 THEN {} ELSE {node.particle_id}
  IN IF node.is_leaf = 1
       THEN /\ node.num_particles = Cardinality(held_here)
            /\ node.mass = SumOver([i \in held_here |-> parlist[i].mass], held_here)
            /\ \A a \in 1 .. 3 :
                 node.S[a] = SumOver([i \in held_here |->
                                        parlist[i].loc[a] * parlist[i].mass],
                                     held_here)
       ELSE /\ node.num_particles
              = SumOver([j \in ChildSlots(n) |-> ChildOf(n, j).num_particles],
                        ChildSlots(n))
            /\ node.mass
              = SumOver([j \in ChildSlots(n) |-> ChildOf(n, j).mass],
                        ChildSlots(n))
            /\ \A a \in 1 .. 3 :
                 node.S[a] = SumOver([j \in ChildSlots(n) |-> ChildOf(n, j).S[a]],
                                     ChildSlots(n))

\* The build ran into neither limit: no allocation was refused and no call
\* was made below the depth limit.
BuildUnhindered ==
  /\ octree.refused = 0
  /\ \A n \in BuiltNodes : octree.node_pool[n].depth <= MaxDepth

\* C21: after the octree build every node's accumulated mass equals the sum
\* of the masses of the particles held in the leaves of its subtree, and its
\* num_particles their number (so its centre of mass is their mass-weighted
\* mean), for every insertion order and particle configuration.
C21_NodeSumsMatchSubtree ==
  gpc = "forces" => \A n \in BuiltNodes : NodeAgrees(n)

\* The statement of C21 for the builds that met neither the end of the arena
\* nor the depth limit.
C21_WhenBuildUnhindered ==
  (gpc = "forces" /\ BuildUnhindered) => \A n \in BuiltNodes : NodeAgrees(n)
\* A build of three leaves under internal nodes, unhindered.
C21_Reached ==
  /\ gpc = "forces" /\ BuildUnhindered
  /\ octree.node_pool[octree.root].num_particles = 3
  /\ octree.node_pool[octree.root].is_leaf = 0

\* The leaves that hold particle i.
HoldingLeaves(i) ==
  {n \in BuiltNodes : /\ octree.node_pool[n].is_leaf = 1
                      /\ octree.node_pool[n].particle_id = parlist[i].id}

\* Every particle passed to the build sits in exactly one leaf, and no
\* internal node records a particle.
EachInOneLeaf ==
  /\ \A i \in Insertable(parlist) : Cardinality(HoldingLeaves(i)) = 1
  /\ \A n \in BuiltNodes :
       octree.node_pool[n].is_leaf = 0 => octree.node_pool[n].particle_id = -1

\* C22: after the octree build every alive particle with positive mass is
\* held by exactly one leaf (as its particle_id), every leaf holds at most
\* one particle, and no internal node still records a particle_id.
C22_EachParticleInExactlyOneLeaf ==
  gpc = "forces" => EachInOneLeaf

\* The statement of C22 for the builds that met neither the end of the arena
\* nor the depth limit.
C22_WhenBuildUnhindered ==
  (gpc = "forces" /\ BuildUnhindered) => EachInOneLeaf
\* An internal node that was left holding a particle and has no child.
C22_StrandedParticle ==
  /\ gpc = "forces"
  /\ \E n \in BuiltNodes : /\ octree.node_pool[n].is_leaf = 0
                           /\ octree.node_pool[n].particle_id # -1
                           /\ ChildSlots(n) = {}
\* Two particles on one spot in an arena large enough to reach the depth
\* limit: neither is in a leaf.
C22_LostAtDepthLimit ==
  /\ gpc = "forces"
  /\ octree.refused = 0
  /\ \E i, j \in Insertable(parlist) :
       i # j /\ HoldingLeaves(i) = {} /\ HoldingLeaves(j) = {}

RECURSIVE OnPath(_, _, _, _)
\* part_001:179-195  whether node n lies on the way a particle at p takes
\* down the tree from node at (of depth d): the nodes whose cell holds p.
OnPath(n, p, at, d) ==
  IF at = NULL THEN FALSE
  ELSE IF at = n THEN TRUE
  ELSE OnPath(n, p, octree.node_pool[at].children[get_octant(p, bbox, d)], d + 1)

\* The opening angle is in the range 0.5 to 1.0.
TypicalTheta ==
  /\ 2 * gravity_theta.n >= gravity_theta.d
  /\ gravity_theta.n <= gravity_theta.d

\* Worker w, walking for a particle that is in the tree, takes the node on
\* top of its stack as one point mass in this step.
TakesAsPointMass(w) ==
  /\ gpc = "forces"
  /\ gwork[w].phase = "walk"
  /\ gwork[w].stack # <<>>
  /\ gwork[w].i \in Insertable(parlist)
  /\ Len(gwork'[w].own) > Len(gwork[w].own)

\* C23: for every particle p and every opening angle in the range 0.5 to
\* 1.0, no node whose subtree contains p is evaluated as a single point mass
\* during p's tree walk, so p's own mass never contributes to p's
\* acceleration.
C23_OwnMassNeverContributes ==
  [][\A w \in DOMAIN gwork :
       (TypicalTheta /\ TakesAsPointMass(w)) =>
         ~OnPath(Head(gwork[w].stack), parlist[gwork[w].i], octree.root, 0)]_vars

\* Four particles in their leaves, opening angle 1, no softening, nothing
\* lost in the build: the walk for particle 0 took the root, which holds
\* all four, as one point of mass 4.
C23_RootTakenWhole ==
  /\ gpc = "forces"
  /\ GravParnum(parlist) = 4
  /\ gravity_theta = [n |-> 1, d |-> 1] /\ gravity_softening = 0
  /\ BuildUnhindered
  /\ EachInOneLeaf
  /\ 0 \in DOMAIN walks
  /\ walks[0] = <<Term(octree.node_pool[octree.root])>>
\* The same scene: the walk for particle 1, at the centre of the box, took
\* the octant cell that holds it and the two particles near the far corner
\* as one point of mass 3.
C23_OctantTakenWhole ==
  /\ gpc = "forces"
  /\ GravParnum(parlist) = 4
  /\ gravity_theta = [n |-> 1, d |-> 1] /\ gravity_softening = 0
  /\ BuildUnhindered
  /\ EachInOneLeaf
  /\ 1 \in DOMAIN walks
  /\ \E k \in DOMAIN walks[1] : walks[1][k].mass = 3

\* A node as allocate_node left it: no call of Octree_insert worked on it.
Untouched(n) ==
  octree.node_pool[n] = FreshNode(octree.node_pool[n].depth)

\* C24: Octree_insert terminates for every input, particles on one spot
\* included: every invocation either returns or calls itself one level
\* down, no invocation is deeper than one level below the limit of 50 and
\* none does any work there, and the build never holds more than pool_size
\* nodes.
C24_InsertTerminatesWithinLimits ==
  /\ [](gpc \in {"insert", "forces"} =>
          /\ octree.next_free <= octree.pool_size
          /\ Cardinality(BuiltNodes) = octree.next_free
          /\ ins.depth <= MaxDepth + 1
          /\ \A n \in BuiltNodes :
               octree.node_pool[n].depth > MaxDepth => Untouched(n))
  /\ [][(gpc = "insert" /\ ins # NoCall) =>
          /\ gi' >= gi
          /\ \/ ins' = NoCall /\ gi' = gi + 1
             \/ ins'.depth = ins.depth + 1 /\ ins.depth <= MaxDepth]_vars
\* C24 witness: two particles on one spot were followed down to the limit;
\* the node below it was allocated and left untouched, and the build ended.
C24_Witness ==
  /\ gpc = "forces"
  /\ \E n \in BuiltNodes : octree.node_pool[n].depth = MaxDepth + 1 /\ Untouched(n)
  /\ \E i, j \in Insertable(parlist) :
       i # j /\ parlist[i].loc = parlist[j].loc

-----------------------------------------------------------------------------
(* SpecRelax: part_002:6-232, relax_overlaps.  Lengths are integers in     *)
(* ticks of a tenth of a unit; min_separation and strength are fractions   *)
(* [n, d].  The scenes put every particle on one line parallel to x, so    *)
(* that dy = dz = 0 in every pair, dist = |dx| without a square root, and  *)
(* every push is along x.  A pair is degenerate (dist_sq <= 1e-10) exactly *)
(* when dx = 0.                                                            *)

TicksPerUnit == 10

\* part_002:38  cell_size = max_size * 2.0 * min_separation * 1.1, in ticks.
CellSize(sizes, minsep) ==
  (SetMax({0} \cup {sizes[i] : i \in DOMAIN sizes}) * 2 * minsep.n * 11
     * TicksPerUnit) \div (minsep.d * 10)

\* part_002:41-59  the padded bounds.
RelaxBounds(loc, cell) ==
  [min |-> [a \in 1 .. 3 |-> SetMin({loc[i][a] : i \in DOMAIN loc}) - cell],
   max |-> [a \in 1 .. 3 |-> SetMax({loc[i][a] : i \in DOMAIN loc}) + cell]]

\* part_002:63-65  the grid dimensions for a cell size.
GridDims(b, cell) == [a \in 1 .. 3 |-> TruncDiv(b.max[a] - b.min[a], cell) + 1]

MAX_CELLS == 10000000
\* part_002:69  the cell size at which doubling stops: 1000.0 units.
CellSizeLimit == 1000 * TicksPerUnit

\* <long>grid_x * <long>grid_y * <long>grid_z > MAX_CELLS, by division so
\* that no product is formed.
TooManyCells(g) == g[1] > (MAX_CELLS \div g[2]) \div g[3]

RECURSIVE SizedCell(_, _)
\* part_002:68-74  the cell size after the doubling loop.
SizedCell(b, cell) ==
  IF TooManyCells(GridDims(b, cell)) /\ cell < CellSizeLimit
    THEN SizedCell(b, 2 * cell)
    ELSE cell

\* part_002:111-120  the clamped cell index of a position.
ClampedCell(p, g) ==
  LET c == [a \in 1 .. 3 |->
              Max2(0, Min2(g.dims[a] - 1,
                           TruncDiv(p[a] - g.min[a], g.cell_size)))]
  IN c[1] + c[2] * g.dims[1] + c[3] * g.dims[1] * g.dims[2]

\* part_002:105-137  the counting sort of one pass.  cell_counts and
\* cell_starts are given per cell; sorted_indices and particle_cells are
\* the arrays of n entries.
CellCount(pcs, c) == Cardinality({i \in DOMAIN pcs : pcs[i] = c})
CellStart(pcs, c) == Cardinality({i \in DOMAIN pcs : pcs[i] < c})

RECURSIVE Scatter_NoCount(_, _, _, _)
\* A placement loop that does not advance the count of the cell it fills.
Scatter_NoCount(pcs, i, counts, out) ==
  IF i \notin DOMAIN pcs THEN out
  ELSE Scatter_NoCount(pcs, i + 1, counts,
                       [out EXCEPT ![CellStart(pcs, pcs[i]) + counts[pcs[i]]] = i])

RECURSIVE Scatter(_, _, _, _)
\* part_002:133-137  the placement loop from particle i on: counts are the
\* cell_counts of the cells in use, reset to 0 by lines 129-131, and out is
\* sorted_indices as filled so far.
Scatter(pcs, i, counts, out) ==
  IF i \notin DOMAIN pcs THEN out
  ELSE Scatter(pcs, i + 1, [counts EXCEPT ![pcs[i]] = @ + 1],
               [out EXCEPT ![CellStart(pcs, pcs[i]) + counts[pcs[i]]] = i])

\* part_002:105-137  the build of one pass.  sorted_indices comes from
\* malloc: an entry the placement loop did not write is shown as -1.
CountingSort(loc, g) ==
  LET pcs == [i \in DOMAIN loc |-> ClampedCell(loc[i], g)]
  IN [particle_cells |-> pcs,
      sorted_indices |->
        Scatter(pcs, 0, [c \in {pcs[i] : i \in DOMAIN pcs} |-> 0],
                [s \in 0 .. Cardinality(DOMAIN loc) - 1 |-> -1])]

\* part_002:146-166  the particles that the neighbourhood loops of particle
\* i visit, in the order they visit them.  The cell of i is not clamped.
Neighbourhood(p, g, srt) ==
  LET c == [a \in 1 .. 3 |-> TruncDiv(p[a] - g.min[a], g.cell_size)]
      Slice(nc) ==
        [k \in 1 .. CellCount(srt.particle_cells, nc) |->
           srt.sorted_indices[CellStart(srt.particle_cells, nc) + k - 1]]
      InGrid(a, v) == v >= 0 /\ v < g.dims[a]
      Cell(ox, oy, oz) ==
        IF InGrid(1, c[1] + ox) /\ InGrid(2, c[2] + oy) /\ InGrid(3, c[3] + oz)
          THEN Slice((c[1] + ox) + (c[2] + oy) * g.dims[1]
                       + (c[3] + oz) * g.dims[1] * g.dims[2])
          ELSE <<>>
      Column(ox, oy) == Cell(ox, oy, -1) \o Cell(ox, oy, 0) \o Cell(ox, oy, 1)
      Plane(ox) == Column(ox, -1) \o Column(ox, 0) \o Column(ox, 1)
  IN Plane(-1) \o Plane(0) \o Plane(1)

\* part_002:177-183  the pair overlaps: dist_sq < min_dist^2.
MinDist(sizes, minsep, i, j) ==
  ((sizes[i] + sizes[j]) * TicksPerUnit * minsep.n) \div minsep.d
Overlapping(loc, sizes, minsep, i, j) ==
  /\ loc[i][2] = loc[j][2]
  /\ loc[i][3] = loc[j][3]
  /\ Abs(loc[j][1] - loc[i][1]) < MinDist(sizes, minsep, i, j)

\* A push that has no direction for a pair on one spot and leaves it there.
Displacement_DegenerateUnmoved(loc, sizes, minsep, s, i, j) ==
  LET dx == loc[j][1] - loc[i][1]
      md == MinDist(sizes, minsep, i, j)
  IN IF dx = 0 THEN 0
     ELSE IF dx > 0 THEN ((md - dx) * s.n) \div s.d
     ELSE 0 - (((md + dx) * s.n) \div s.d)

\* part_002:185-202  nx * overlap, the displacement of j along x (i gets
\* the opposite).  A degenerate pair takes dist = 1e-5 and dx = 1.0, so
\* nx = 100000 and the displacement is (100000 * min_dist - 1) * strength.
Displacement(loc, sizes, minsep, s, i, j) ==
  LET dx == loc[j][1] - loc[i][1]
      md == MinDist(sizes, minsep, i, j)
  IN IF dx = 0 THEN ((100000 * md - TicksPerUnit) * s.n) \div s.d
     ELSE IF dx > 0 THEN ((md - dx) * s.n) \div s.d
     ELSE 0 - (((md + dx) * s.n) \div s.d)

\* A push that moves the second particle of the pair only.
Pushed_SecondOnly(loc, i, j, d) ==
  [loc EXCEPT ![j][1] = @ + d]

\* part_002:204-209  the push applied to the position buffer.
Pushed(loc, i, j, d) ==
  [loc EXCEPT ![i][1] = @ - d, ![j][1] = @ + d]

\* part_002:79-82  the four buffers of the grid.
Buffers == {"cell_counts", "cell_starts", "particle_cells", "sorted_indices"}

\* A failure path that frees nothing.
FreedOnFailure_None(allocated) == allocated \ allocated

\* part_002:85-88  the buffers the failure path frees: each one that is not
\* NULL.
FreedOnFailure(allocated) == {b \in Buffers : b \in allocated}

\* Inputs of a call.
RelaxMaxN == 4
RelaxMaxIter == 3
RelaxXs == {0, 10, 30}
RelaxSizes == {1, 2}
RelaxSeparations == {[n |-> 1, d |-> 1], [n |-> 3, d |-> 2]}
RelaxStrengths == {[n |-> 1, d |-> 1], [n |-> 4, d |-> 5]}
\* Two particles too far apart for the first cell size.
RelaxFarX == 300000000

\* Two particles at opposite corners of a cube of 300000 units.
RelaxFarDiag == 3000000

RelaxScenes ==
  UNION {{[i \in 0 .. n - 1 |-> <<xs[i], 0, 0>>] : xs \in [0 .. n - 1 -> RelaxXs]}
           : n \in 1 .. RelaxMaxN}
    \cup {[i \in 0 .. 1 |-> <<i * RelaxFarX, 0, 0>>]}
    \cup {[i \in 0 .. 1 |-> <<i * RelaxFarDiag, i * RelaxFarDiag,
                               i * RelaxFarDiag>>]}

\* A strength of 4/5 is given to scenes whose particles all start on one
\* spot: every position then stays a multiple of the one degenerate
\* displacement, which is a whole number of ticks.
RelaxInit ==
  /\ StepIdle /\ PartIdle /\ GravIdle
  /\ parlist = <<>> /\ cpunum = 1
  /\ par_loc \in RelaxScenes
  /\ \E sz \in RelaxSizes : par_size = [i \in DOMAIN par_loc |-> sz]
  /\ max_iterations \in -1 .. RelaxMaxIter
  /\ min_separation \in RelaxSeparations
  /\ strength \in RelaxStrengths
  /\ strength.d # 1 => \A i \in DOMAIN par_loc : par_loc[i] = par_loc[0]
  /\ failing \in SUBSET Buffers
  /\ alloc_ok = (failing = {})
  /\ held = {}
  /\ input_loc = par_loc
  /\ rpc = "start"
  /\ grid = <<>>
  /\ sorted = <<>>
  /\ iteration = 0
  /\ initial_overlaps = 0
  /\ overlaps_this_pass = 0
  /\ final_overlaps = 0
  /\ ri = 0
  /\ cand = <<>>
  /\ result = <<>>
  /\ hist = <<>>

RelaxFrame == UNCHANGED <<StepVars, PartVars, GravVars, par_size,
                          max_iterations, min_separation, strength, alloc_ok,
                          failing, input_loc>>

\* part_002:22-93  up to the first pass: fewer than two particles, the grid,
\* the four buffers.
RelaxStart ==
  /\ rpc = "start"
  /\ IF Cardinality(DOMAIN par_size) < 2
       THEN /\ result' = <<0, 0, 0>>
            /\ rpc' = "returned"
            /\ grid' = grid
            /\ held' = held
       ELSE \E c0 \in {CellSize(par_size, min_separation)} :
            \E b \in {RelaxBounds(par_loc, c0)} :
            \E c \in {SizedCell(b, c0)} :
              /\ grid' = [cell_size |-> c, min |-> b.min, max |-> b.max,
                          dims |-> GridDims(b, c)]
              /\ IF Buffers \ failing = Buffers
                   THEN /\ held' = Buffers
                        /\ result' = result /\ rpc' = "pass"
                   ELSE /\ held' = (Buffers \ failing)
                                      \ FreedOnFailure(Buffers \ failing)
                        /\ result' = <<0, 0, -1>> /\ rpc' = "returned"
  /\ iteration' = 0
  /\ UNCHANGED <<par_loc, sorted, initial_overlaps, overlaps_this_pass,
                 final_overlaps, ri, cand, hist>>
  /\ RelaxFrame

\* part_002:102-137 and 226-232  the loop head: another pass with its
\* counting sort, or the budget is used up and the call returns.
RelaxPass ==
  /\ rpc = "pass"
  /\ IF iteration < max_iterations
       THEN /\ overlaps_this_pass' = 0
            /\ sorted' = CountingSort(par_loc, grid)
            /\ ri' = 0
            /\ rpc' = "particle"
            /\ UNCHANGED <<result, held>>
       ELSE /\ result' = <<max_iterations, initial_overlaps, final_overlaps>>
            /\ held' = held \ Buffers
            /\ rpc' = "returned"
            /\ UNCHANGED <<overlaps_this_pass, sorted, ri>>
  /\ UNCHANGED <<par_loc, grid, iteration, initial_overlaps, final_overlaps,
                 cand, hist>>
  /\ RelaxFrame

\* part_002:140-163  the next particle i and the neighbours it will visit.
RelaxParticle ==
  /\ rpc = "particle"
  /\ ri < Cardinality(DOMAIN par_size)
  /\ cand' = Neighbourhood(par_loc[ri], grid, sorted)
  /\ rpc' = "pairs"
  /\ UNCHANGED <<par_loc, grid, sorted, iteration, initial_overlaps,
                 overlaps_this_pass, final_overlaps, ri, result, hist, held>>
  /\ RelaxFrame

\* part_002:165-214  one neighbour j of particle i.
RelaxPair ==
  /\ rpc = "pairs"
  /\ cand # <<>>
  /\ \E j \in {Head(cand)} :
       IF j > ri /\ Overlapping(par_loc, par_size, min_separation, ri, j)
         THEN /\ par_loc' = Pushed(par_loc, ri, j,
                                   Displacement(par_loc, par_size,
                                                min_separation, strength, ri, j))
              /\ initial_overlaps' = IF iteration = 0 THEN initial_overlaps + 1
                                     ELSE initial_overlaps
              /\ overlaps_this_pass' = overlaps_this_pass + 1
         ELSE UNCHANGED <<par_loc, initial_overlaps, overlaps_this_pass>>
  /\ cand' = Tail(cand)
  /\ UNCHANGED <<rpc, grid, sorted, iteration, final_overlaps, ri, result, hist,
                 held>>
  /\ RelaxFrame

\* part_002:140  particle i is through.
RelaxNextParticle ==
  /\ rpc = "pairs"
  /\ cand = <<>>
  /\ ri' = ri + 1
  /\ rpc' = "particle"
  /\ UNCHANGED <<par_loc, grid, sorted, iteration, initial_overlaps,
                 overlaps_this_pass, final_overlaps, cand, result, hist, held>>
  /\ RelaxFrame

\* part_002:216-224  the end of a pass: converged, or on to the next.
RelaxEndPass ==
  /\ rpc = "particle"
  /\ ri = Cardinality(DOMAIN par_size)
  /\ hist' = Append(hist, overlaps_this_pass)
  /\ IF overlaps_this_pass = 0
       THEN /\ result' = <<iteration + 1, initial_overlaps, 0>>
            /\ held' = held \ Buffers
            /\ rpc' = "returned"
            /\ UNCHANGED <<final_overlaps, iteration>>
       ELSE /\ final_overlaps' = overlaps_this_pass
            /\ iteration' = iteration + 1
            /\ rpc' = "pass"
            /\ UNCHANGED <<result, held>>
  /\ UNCHANGED <<par_loc, grid, sorted, initial_overlaps, overlaps_this_pass,
                 ri, cand>>
  /\ RelaxFrame

RelaxNext ==
  \/ RelaxStart
  \/ RelaxPass
  \/ RelaxParticle
  \/ RelaxPair
  \/ RelaxNextParticle
  \/ RelaxEndPass

SpecRelax == RelaxInit /\ [][RelaxNext]_vars

\* ---- Claims about relax_overlaps -----------------------------------------

RelaxN == Cardinality(DOMAIN par_size)
Returned == rpc = "returned"
OverlappingPairs(loc) ==
  {pr \in (DOMAIN par_size) \X (DOMAIN par_size) :
     pr[1] < pr[2] /\ Overlapping(loc, par_size, min_separation, pr[1], pr[2])}

\* C5: whenever relax_overlaps returns a final overlap count of 0 for two or
\* more particles, no pair of the returned position buffer is closer than
\* min_separation times the sum of its radii.
C5_ZeroFinalMeansSeparated ==
  (Returned /\ RelaxN >= 2 /\ result[3] = 0) => OverlappingPairs(par_loc) = {}

\* The same with a budget of at least one pass, so that the zero was
\* reported by a pass that looked.
C5_ConvergedPassMeansSeparated ==
  (Returned /\ RelaxN >= 2 /\ result[3] = 0 /\ max_iterations >= 1)
    => OverlappingPairs(par_loc) = {}

\* C6: relax_overlaps with two or more particles makes at most
\* max_iterations passes and returns (k, initial, 0) at the first pass k that
\* finds no overlapping pair, and otherwise (max_iterations, initial, final)
\* with final the nonzero number of pairs the last pass found.
FirstCleanPass(k) ==
  /\ k \in DOMAIN hist
  /\ hist[k] = 0
  /\ \A m \in 1 .. k - 1 : hist[m] # 0
C6_ReturnsAfterAtMostMaxIterationsPasses ==
  (Returned /\ RelaxN >= 2) =>
    /\ Len(hist) <= max_iterations
    /\ \/ /\ FirstCleanPass(Len(hist))
          /\ result = <<Len(hist), hist[1], 0>>
       \/ /\ Len(hist) = max_iterations
          /\ Len(hist) >= 1
          /\ \A m \in DOMAIN hist : hist[m] # 0
          /\ result = <<max_iterations, hist[1], hist[Len(hist)]>>

\* What is left of C6 when the buffers were allocated and the budget is at
\* least one pass.
C6_WithBudgetAndBuffers ==
  (alloc_ok /\ max_iterations >= 1)
    => /\ Len(hist) <= max_iterations
       /\ C6_ReturnsAfterAtMostMaxIterationsPasses
\* A call without budget returns its budget and two zeros without a pass; a
\* call without buffers returns (0, 0, -1).
C6_WithoutBudgetOrBuffers ==
  (Returned /\ RelaxN >= 2) =>
    /\ ~alloc_ok => result = <<0, 0, -1>> /\ hist = <<>>
    /\ (alloc_ok /\ max_iterations <= 0)
         => result = <<max_iterations, 0, 0>> /\ hist = <<>>

\* C14: if any of the four grid buffers cannot be allocated, relax_overlaps
\* returns (0, 0, -1), has freed the buffers that were allocated, and has
\* left the position buffer as the caller passed it.
C14_AllocationFailureIsReported ==
  (Returned /\ RelaxN >= 2 /\ failing # {}) =>
    /\ result = <<0, 0, -1>>
    /\ held = {}
    /\ par_loc = input_loc
    /\ hist = <<>>
\* C14 witness: a call on overlapping particles with a budget has returned
\* after malloc denied one buffer and gave the other three.
C14_Witness ==
  /\ Returned /\ RelaxN >= 2
  /\ Cardinality(failing) = 1
  /\ max_iterations >= 1
  /\ OverlappingPairs(input_loc) # {}
  /\ result = <<0, 0, -1>>

\* The call is on particles that all start on one spot, with strength 0.8.
CoincidentStart ==
  /\ RelaxN >= 2
  /\ strength = [n |-> 4, d |-> 5]
  /\ \A i \in DOMAIN input_loc : input_loc[i] = input_loc[0]

\* C19: for K >= 2 particles that all start at the same position, with
\* strength 0.8, the number of overlapping pairs found in each pass is
\* strictly smaller than the number found in the pass before, or is 0.
C19_CoincidentCountsDecrease ==
  CoincidentStart =>
    \A k \in 2 .. Len(hist) : hist[k] < hist[k - 1] \/ hist[k] = 0
\* C19 witness: four particles on one spot; the first pass found two pairs,
\* the second none.
C19_Witness ==
  /\ CoincidentStart /\ RelaxN = 4
  /\ Returned
  /\ hist = <<2, 0>>

\* C20: the initial_overlap_count that relax_overlaps returns equals the
\* number of pairs that overlap in the positions as the caller passed them,
\* before any push is applied.  Stated for the calls that got their buffers
\* and ran at least one pass, the only ones that count pairs at all.
C20_InitialCountIsOverlapsOfInput ==
  (Returned /\ RelaxN >= 2 /\ alloc_ok /\ max_iterations >= 1) =>
    result[2] = Cardinality(OverlappingPairs(input_loc))
\* Four particles on one spot: six pairs overlap, two are counted.
C20_Undercount ==
  /\ Returned /\ RelaxN = 4 /\ alloc_ok /\ max_iterations >= 1
  /\ Cardinality(OverlappingPairs(input_loc)) = 6
  /\ result[2] = 2
\* Particles at 1.0, 0.0 and 3.0 of radius 1: one pair overlaps, two are
\* counted, the second made by the push of the first.
C20_Overcount ==
  /\ Returned /\ RelaxN = 3 /\ alloc_ok /\ max_iterations >= 1
  /\ Cardinality(OverlappingPairs(input_loc)) = 1
  /\ result[2] = 2

\* The sum of the positions along axis a.
PositionSum(loc, a) == SumOver([i \in DOMAIN loc |-> loc[i][a]], DOMAIN loc)

\* The step examines the pair (ri, j) and moves it: both by the same
\* amount, i against and j along the direction from i to j, which is +x for
\* a pair on one spot; nothing else moves.
PushesPairApart(j) ==
  LET dx == par_loc[j][1] - par_loc[ri][1]
      d == par_loc'[j][1] - par_loc[j][1]
  IN /\ j > ri
     /\ Overlapping(par_loc, par_size, min_separation, ri, j)
     /\ par_loc'[ri][1] = par_loc[ri][1] - d
     /\ dx > 0 => d >= 0
     /\ dx < 0 => d <= 0
     /\ dx = 0 => d > 0
     /\ \A k \in DOMAIN par_loc :
          /\ par_loc'[k][2] = par_loc[k][2]
          /\ par_loc'[k][3] = par_loc[k][3]
          /\ k \notin {ri, j} => par_loc'[k] = par_loc[k]

\* C27: each push of the relaxer moves the two particles of the overlapping
\* pair by equal and opposite displacements along their separation
\* direction (along +x for a pair on one spot), so the sum of all positions
\* is the same after a pass as before it; the positions of particles in no
\* detected overlapping pair, and all radii, are never modified.
C27_PushesAreEqualAndOpposite ==
  /\ [][/\ par_size' = par_size
        /\ par_loc' # par_loc =>
             /\ rpc = "pairs" /\ cand # <<>>
             /\ PushesPairApart(Head(cand))]_vars
  /\ [](rpc # "off" =>
          \A a \in 1 .. 3 : PositionSum(par_loc, a) = PositionSum(input_loc, a))
\* C27 witness: a call on three particles returned after a pass that pushed
\* one particle down, one up and left the third where it was.
C27_Witness ==
  /\ Returned /\ RelaxN = 3
  /\ Len(hist) >= 1 /\ hist[1] = 1
  /\ \E i, j, k \in DOMAIN par_loc :
       /\ par_loc[i][1] < input_loc[i][1]
       /\ par_loc[j][1] > input_loc[j][1]
       /\ par_loc[k] = input_loc[k]

\* The grid has been sized.
GridSized == rpc \notin {"off", "start"} /\ RelaxN >= 2

\* C28: after the relaxer's grid sizing the total number of grid cells
\* (grid_x * grid_y * grid_z) never exceeds the cap of 10,000,000: whenever
\* the initial cell size would give more cells than the cap, the cell size
\* is doubled until the grid is within the cap.
C28_GridWithinCap ==
  GridSized => ~TooManyCells(grid.dims)

\* What the loop of part_002:68-74 does ensure: the grid is within the cap,
\* or the cell size has reached 1000 units.
C28_WithinCapOrCellSizeAtLimit ==
  GridSized => (~TooManyCells(grid.dims) \/ grid.cell_size >= CellSizeLimit)
\* A grid that the doubling brought within the cap.
C28_DoubledIntoCap ==
  /\ GridSized
  /\ grid.cell_size > CellSize(par_size, min_separation)
  /\ ~TooManyCells(grid.dims)
\* A grid left above the cap: the doubling stopped at a cell of 1126.4
\* units with 267 cells along each axis.
C28_AboveCap ==
  /\ GridSized
  /\ grid.cell_size = 11264
  /\ grid.dims = <<267, 267, 267>>
  /\ TooManyCells(grid.dims)

\* The counting sort of the pass in progress has just been built: no pair
\* of the pass has been examined yet.
JustSorted == rpc = "particle" /\ ri = 0

\* The entries of sorted_indices that cell_starts and cell_counts give to
\* cell c.
CellSlice(c) ==
  {sorted.sorted_indices[CellStart(sorted.particle_cells, c) + k] :
     k \in 0 .. CellCount(sorted.particle_cells, c) - 1}

\* The cells some particle lies in, with the first and the last cell of the
\* grid.
CellsOfInterest ==
  {ClampedCell(par_loc[i], grid) : i \in DOMAIN par_loc}
    \cup {0, (grid.dims[1] * grid.dims[2]) * grid.dims[3] - 1}

\* C29: after the counting-sort build of every relaxation pass,
\* sorted_indices is a permutation of 0 .. n-1 and, for every cell c, the
\* slice of sorted_indices from cell_starts[c] to cell_starts[c] +
\* cell_counts[c] lists exactly the particles whose clamped cell index is c.
C29_SortedIndicesListEachCell ==
  JustSorted =>
    /\ DOMAIN sorted.sorted_indices = 0 .. RelaxN - 1
    /\ {sorted.sorted_indices[s] : s \in DOMAIN sorted.sorted_indices}
         = 0 .. RelaxN - 1
    /\ \A c \in CellsOfInterest :
         /\ CellSlice(c) = {i \in DOMAIN par_loc : ClampedCell(par_loc[i], grid) = c}
         /\ Cardinality(CellSlice(c)) = CellCount(sorted.particle_cells, c)
\* C29 witness: the build of a second pass over four particles, two of them
\* in one cell and one clamped into the first cell of the grid.
C29_Witness ==
  /\ JustSorted /\ RelaxN = 4 /\ iteration = 1
  /\ \E i, j \in DOMAIN par_loc :
       /\ i # j
       /\ ClampedCell(par_loc[i], grid) = ClampedCell(par_loc[j], grid)
  /\ \E i \in DOMAIN par_loc :
       /\ par_loc[i][1] < grid.min[1]
       /\ ClampedCell(par_loc[i], grid)
            = ClampedCell(<<grid.min[1], par_loc[i][2], par_loc[i][3]>>, grid)

=============================================================================
